---- MODULE Spec2Model ----
(***************************************************************************)
(* Resilience & delivery engine of the slowhands agent runtime:            *)
(*   - MessageQueue           (app/src/message_queue.py)                   *)
(*   - ConnectionManager      (app/src/connection_manager.py)              *)
(*   - CircuitBreaker         (app/src/reliability.py)                     *)
(*   - RateLimiter            (app/src/reliability.py)                     *)
(*   - LLMInterface (gateway) (app/src/llm.py)                             *)
(*   - Agent and its loops    (app/src/agent.py, server.py, services.py)   *)
(*                                                                         *)
(* These specifications share the module:                                  *)
(*   SpecMQ  the queue driven directly (enqueue, dequeue, process_all,     *)
(*           clear), with the deliver callback failing at will;            *)
(*   SpecCM  the connection manager: one broadcaster task, websockets      *)
(*           that connect, replay the queue, close and get disconnected    *)
(*           (SpecCMUnbounded: the same over an unbounded queue);          *)
(*   SpecCB  the circuit breaker driven directly, with a clock;            *)
(*   SpecGW  gateway calls (chat / chat_with_tools) of concurrent callers  *)
(*           sharing one breaker and one rate limiter;                     *)
(*   SpecRL  the rate limiter with the clock: check_and_wait and           *)
(*           record_request of concurrent callers;                         *)
(*   SpecUsage  SpecRL with get_current_usage reads;                       *)
(*   SpecAgent  runs of the one agent (Agent.run or a streaming task),     *)
(*           whose steps execute in executor threads and call the gateway; *)
(*   SpecSweep  the connection registry with the clock and the             *)
(*           stale-connection sweep;                                       *)
(*   SpecAdmin  the administrative stop and reset of the agent;            *)
(*   SpecConc  threads on one RateLimiter or one CircuitBreaker, at the    *)
(*           grain of lock, read and write;                                *)
(*   SpecBackoff  the backoff computation of the tool retries;             *)
(*   SpecTranscript  agent.step() calls on the shared Memory;              *)
(*   SpecTool  one _execute_tool_with_retry call;                          *)
(*   SpecReplay  SpecCM under a fair scheduler (termination of connect);   *)
(*   SpecAct  one act step: _handle_tool_calls on a backend response and   *)
(*           the step event a streaming loop broadcasts for it.            *)
(* Every specification leaves the variables it does not drive at their     *)
(* initial value.                                                          *)
(***************************************************************************)
EXTENDS Integers, Sequences, FiniteSets, TLC

\* ------------------------------------------------------------------------
\* Bounds of the model
\* ------------------------------------------------------------------------
MaxMsgs == 3          \* messages / events created in one behaviour
MaxQueueSize == 2     \* largest max_size tried (0 = unbounded is tried too)
MaxHandoffs == 4      \* deliver calls per message followed by the model
MaxWS == 2            \* websockets
MaxTime == 3          \* last clock value
MaxFailures == 4      \* largest failure_count followed
MaxThreshold == 2     \* largest failure_threshold tried
MaxTimeout == 2       \* largest reset_timeout tried
MaxCallers == 2       \* threads calling the gateway concurrently
MaxCalls == 3         \* gateway calls begun in one behaviour
MaxAttempts == 2      \* largest retry_attempts tried (SpecGW)
MaxTokens == 1        \* largest token count of one request
MaxRpm == 1           \* largest rpm_limit tried (0 = disabled is tried too)
MaxRuns == 2          \* runs started on the one agent in one behaviour
MaxIterations == 2    \* largest max_iterations tried
MaxToolCalls == 1     \* most tool calls requested by one backend response
MaxBaseWait == 2      \* largest tool_retry_min_wait tried (0 is tried too)
MaxCapWait == 5       \* largest tool_retry_max_wait tried (0 is tried too)
MaxBackoffAttempt == 3 \* last attempt number passed to _calculate_backoff
RandomSteps == 4      \* random.random() is one of 0/4, 1/4, 2/4, 3/4
MaxReads == 2         \* get_current_usage calls
MaxSteps == 3         \* agent.step() calls started on the transcript
MaxRequested == 2     \* most tool calls in one backend response
MaxStepThreads == 2   \* executor threads running agent.step()
MaxHistory == 4       \* Memory.max_history (50 by default), scaled down
MaxWorkers == 3       \* threads of one concurrent burst
MaxToolRetries == 3   \* largest tool_retry_attempts tried

\* ------------------------------------------------------------------------
\* State
\* ------------------------------------------------------------------------
VARIABLES
    \* MessageQueue
    mq,            \* [queue, total_enqueued, total_dequeued, total_dropped]
    max_size,      \* MessageQueue.max_size
    next_msg,      \* next fresh message id: ids grow in creation order
    pa,            \* the running process_all of SpecMQ: [pc, msg]
    mq_op,         \* the last queue operation, its pre-state and its result
    handed,        \* message -> number of times it was passed to send_func
    failed,        \* message -> number of failed deliveries
    delivered,     \* messages that left the queue for good, in order
    \* ConnectionManager
    connections,   \* registered websockets, in dict insertion order
    ws_state,      \* websocket -> "new" | "open" | "closed" | "gone"
    bc,            \* the broadcast in progress
    ctask,         \* websocket -> its connect() call: [pc, msg, ok]
    received,      \* websocket -> events the client received, in order
    bc_log,        \* event -> outcome of its finished broadcast
    at_connect,    \* websocket -> registry and queue seen when it connected
    \* CircuitBreaker
    breaker,       \* [state, failure_count, last_failure_time]
    failure_threshold,
    reset_timeout,
    now,           \* time.time()
    cb_op,         \* the last breaker operation: [op, pre, at, value, raised]
    streak,        \* record_failure calls since the last success / reset
    last_fail_at,  \* time of the most recent record_failure, 0 if none
    opened_at,     \* time of the failure that last moved the state to OPEN
    reopened_at,   \* time of the last failure recorded while HALF_OPEN
    \* RateLimiter and LLMInterface
    limiter,       \* [request_timestamps, token_usage]
    rl_lock,       \* RateLimiter._lock: 0 when free, else the holding caller
    rpm_limit,
    tpm_limit,
    provider,      \* config.provider
    retry_attempts,
    total_tokens_used,
    call,          \* caller -> its gateway call in progress
    calls_started, \* gateway calls begun so far
    backend_calls, \* backend requests (attempts) made so far
    admitted,      \* SpecRL: the times at which check_and_wait calls returned
    \* Agent and the loops that drive it
    current_step,       \* Agent.current_step
    is_running,         \* Agent.is_running
    shutdown_requested, \* Agent._shutdown_requested
    max_iterations,     \* config.max_iterations
    loop_kind,          \* which loop drives the runs: "run", "server", "service"
    run,                \* run -> [pc, retry_count, err, on, fails, outcome,
                        \* errors]
    th,                 \* executor thread -> the agent.step() it executes
    steps_started,      \* run -> agent.step() calls dispatched by the run
    stop_requested,     \* run -> a stop was requested while it was active
    think_failed,       \* run -> a THINK raised CircuitOpenError or, retries
                        \* exhausted, LLMError
    chats_left,         \* chat messages still to arrive
    step_events,        \* run -> step_number of the step events it broadcast
    \* Tool execution
    tool,               \* the _execute_tool_with_retry call in progress
    \* Stale-connection sweep
    last_activity,      \* websocket -> ConnectionInfo.last_activity
    connection_timeout, \* ConnectionManager.connection_timeout
    last_traffic,       \* websocket -> when it last received a broadcast or
                        \* sent a message or a ping (history)
    cm_op,              \* the last operation on the registry, and the state
                        \* it found
    \* Administrative operations
    admin,              \* the last operation on the agent: its name and the
                        \* stopped events it had sent or queued (history)
    \* Threads on the shared reliability state
    conc,               \* what the threads do, CircuitBreaker._lock, and
                        \* each thread's position and locals
    \* Backoff
    backoff,            \* the retry waits configured and the last
                        \* _calculate_backoff call
    \* Transcript
    memory,             \* Memory.messages
    stepper,            \* the streaming loops and the executor threads
                        \* running agent.step() on the transcript
    \* Usage reads
    rl_op,              \* get_current_usage calls so far, and what the last
                        \* one found and returned (history)
    \* Act steps
    act                 \* the _handle_tool_calls call in progress, the step
                        \* it returned and the event broadcast for it

mqVars == <<mq, max_size, next_msg, pa, mq_op, handed, failed, delivered>>
cmVars == <<connections, ws_state, bc, ctask, received, bc_log, at_connect>>
cbVars == <<breaker, failure_threshold, reset_timeout, now, cb_op, streak,
            last_fail_at, opened_at, reopened_at>>
gwVars == <<limiter, rl_lock, rpm_limit, tpm_limit, provider, retry_attempts,
            total_tokens_used, call, calls_started, backend_calls, admitted>>
agVars == <<current_step, is_running, shutdown_requested, max_iterations,
            loop_kind, run, th, steps_started, stop_requested, think_failed,
            chats_left, step_events>>
auxVars == <<tool, last_activity, connection_timeout, last_traffic, cm_op,
            admin, conc, backoff, memory, stepper, rl_op, act>>
vars == <<mqVars, cmVars, cbVars, gwVars, agVars, auxVars>>

Msgs == 1..MaxMsgs
WS == 1..MaxWS
NoMsg == 0

\* ------------------------------------------------------------------------
\* MessageQueue (message_queue.py)
\* ------------------------------------------------------------------------

\* QueuedMessage(message=m): retry_count defaults to 0.  The timestamp field
\* is never read by the program and is left out.
QueuedMessage(m) == [message |-> m, retry_count |-> 0]

MQInit == [queue |-> <<>>, total_enqueued |-> 0,
           total_dequeued |-> 0, total_dropped |-> 0]

size(s) == Len(s.queue)

is_empty(s) == Len(s.queue) = 0

\* enqueue.  At capacity the code evaluates self._queue.get_nowait(), which
\* removes and returns the oldest QueuedMessage, and then awaits
\* asyncio.wait_for(<that QueuedMessage>, 0.01): a QueuedMessage is not
\* awaitable, so TypeError is raised.  The inner handler catches only
\* QueueEmpty / TimeoutError; the outer `except Exception` logs and returns
\* False.  Net effect: the oldest entry is gone, no counter moves, the new
\* message is not queued.  (qsize() >= max_size > 0 implies a non-empty
\* queue, so the QueueEmpty branch is never taken.)
\* A queue that is full only above its capacity.
enqueue_full_above_capacity(s, m, cap) ==
    IF cap > 0 /\ size(s) > cap
    THEN [mq |-> [s EXCEPT !.queue = Tail(@)], ok |-> FALSE]
    ELSE [mq |-> [s EXCEPT !.queue = Append(@, QueuedMessage(m)),
                           !.total_enqueued = @ + 1],
          ok |-> TRUE]

\* A queue that never looks at its capacity.
enqueue_ignores_capacity(s, m, cap) ==
    [mq |-> [s EXCEPT !.queue = Append(@, QueuedMessage(m)),
                      !.total_enqueued = @ + 1],
     ok |-> TRUE]

enqueue(s, m, cap) ==
    IF cap > 0 /\ size(s) >= cap
    THEN [mq |-> [s EXCEPT !.queue = Tail(@)], ok |-> FALSE]
    ELSE [mq |-> [s EXCEPT !.queue = Append(@, QueuedMessage(m)),
                           !.total_enqueued = @ + 1],
          ok |-> TRUE]

\* dequeue on a non-empty queue: pops the oldest entry, returns its message.
dequeue(s) ==
    [mq |-> [s EXCEPT !.queue = Tail(@), !.total_dequeued = @ + 1],
     message |-> Head(s.queue).message]

\* The except-branch of process_all: a NEW QueuedMessage is built for the
\* message (retry_count 0), incremented to 1 and compared with 3; the
\* message itself is then enqueued again through enqueue().
requeue_after_failure(s, m, cap) ==
    LET queued_msg == [QueuedMessage(m) EXCEPT !.retry_count = @ + 1]
    IN  IF queued_msg.retry_count < 3 THEN enqueue(s, m, cap).mq ELSE s

\* clear: `await self._queue.get_nowait()` removes the oldest entry and then
\* raises TypeError (only QueueEmpty is caught), so one entry is removed.
clear(s) == IF is_empty(s) THEN s ELSE [s EXCEPT !.queue = Tail(@)]

QueueMsgs(s) == {s.queue[i].message : i \in 1..Len(s.queue)}


\* ------------------------------------------------------------------------
\* CircuitBreaker (reliability.py)
\* ------------------------------------------------------------------------
CLOSED == "closed"

OPEN == "open"

HALF_OPEN == "half_open"

\* _last_failure_time is None until a failure is recorded.  The state
\* property tests it for truthiness, which None and 0.0 both fail, so None
\* is represented by 0; the clock starts above 0.
None == 0

BreakerInit == [state |-> CLOSED, failure_count |-> 0,
                last_failure_time |-> None]

\* Mutant of state: the timeout must be exceeded, not just reached.
state_strict_timeout(cb, t, timeout) ==
    IF /\ cb.state = OPEN
       /\ cb.last_failure_time # None
       /\ t - cb.last_failure_time > timeout
    THEN [cb EXCEPT !.state = HALF_OPEN]
    ELSE cb

\* Mutant of state: entering HALF_OPEN also resets the failure count.
state_resets_count(cb, t, timeout) ==
    IF /\ cb.state = OPEN
       /\ cb.last_failure_time # None
       /\ t - cb.last_failure_time >= timeout
    THEN [cb EXCEPT !.state = HALF_OPEN, !.failure_count = 0]
    ELSE cb

\* The `state` property: the lazy OPEN -> HALF_OPEN transition, made under
\* the lock when the state is read at time t.  The value read is the state
\* of the result.
state(cb, t, timeout) ==
    IF /\ cb.state = OPEN
       /\ cb.last_failure_time # None
       /\ t - cb.last_failure_time >= timeout
    THEN [cb EXCEPT !.state = HALF_OPEN]
    ELSE cb

\* check(): reads `state` and raises CircuitOpenError when it is OPEN.
check_raises(cb, t, timeout) == state(cb, t, timeout).state = OPEN

\* Mutant of record_success: the count is reset, the state is left alone.
record_success_keeps_state(cb) == [cb EXCEPT !.failure_count = 0]

record_success(cb) == [cb EXCEPT !.failure_count = 0, !.state = CLOSED]

\* Mutant of record_failure: the count starts again when the circuit opens.
record_failure_restarts_count(cb, t, threshold) ==
    LET count == cb.failure_count + 1
    IN  [state |-> IF count >= threshold THEN OPEN ELSE cb.state,
         failure_count |-> IF count >= threshold THEN 0 ELSE count,
         last_failure_time |-> t]

\* Mutant of record_failure: opens only above the threshold.
record_failure_above_threshold(cb, t, threshold) ==
    LET count == cb.failure_count + 1
    IN  [state |-> IF count > threshold THEN OPEN ELSE cb.state,
         failure_count |-> count,
         last_failure_time |-> t]

record_failure(cb, t, threshold) ==
    LET count == cb.failure_count + 1
    IN  [state |-> IF count >= threshold THEN OPEN ELSE cb.state,
         failure_count |-> count,
         last_failure_time |-> t]

\* Mutant of reset: the circuit is closed, the count is left alone.
reset_keeps_count(cb) == [state |-> CLOSED,
                          failure_count |-> cb.failure_count,
                          last_failure_time |-> None]

reset(cb) == [state |-> CLOSED, failure_count |-> 0,
              last_failure_time |-> None]

CBIdle ==
    /\ breaker = BreakerInit
    /\ failure_threshold = 1
    /\ reset_timeout = 0
    /\ now = 1
    /\ cb_op = [op |-> "init", pre |-> BreakerInit, at |-> 1,
                value |-> CLOSED, raised |-> FALSE]
    /\ streak = 0
    /\ last_fail_at = 0
    /\ opened_at = 0
    /\ reopened_at = 0

\* ------------------------------------------------------------------------
\* RateLimiter (reliability.py).  The clock counts half minutes, so the
\* 60 s window is 2 ticks.
\* ------------------------------------------------------------------------
Window == 2

LimiterInit == [request_timestamps |-> <<>>, token_usage |-> <<>>]

RECURSIVE SumTokens(_)
SumTokens(usage) ==
    IF usage = <<>> THEN 0 ELSE Head(usage)[2] + SumTokens(Tail(usage))

MinOf(S) == CHOOSE x \in S : \A y \in S : x <= y

\* A purge that keeps the entries that are exactly one window old.
_cleanup_old_entries_keeps_cutoff(lim, t) ==
    LET cutoff == t - Window
    IN  [request_timestamps |->
             SelectSeq(lim.request_timestamps, LAMBDA x : x >= cutoff),
         token_usage |->
             SelectSeq(lim.token_usage, LAMBDA e : e[1] >= cutoff)]

_cleanup_old_entries(lim, t) ==
    LET cutoff == t - Window
    IN  [request_timestamps |->
             SelectSeq(lim.request_timestamps, LAMBDA x : x > cutoff),
         token_usage |->
             SelectSeq(lim.token_usage, LAMBDA e : e[1] > cutoff)]

\* The RPM branch of check_and_wait on the cleaned window: the time to
\* sleep (no sleep when it is not positive).
rpm_wait_time(lim, t, rpm) ==
    IF rpm > 0 /\ Len(lim.request_timestamps) >= rpm
    THEN LET oldest == MinOf({lim.request_timestamps[i] :
                                  i \in 1..Len(lim.request_timestamps)})
         IN  Window - (t - oldest)
    ELSE 0

\* The TPM branch of check_and_wait.
tpm_wait_time(lim, t, tpm, estimated_tokens) ==
    IF /\ tpm > 0
       /\ lim.token_usage # <<>>
       /\ SumTokens(lim.token_usage) + estimated_tokens > tpm
    THEN LET oldest_token == MinOf({lim.token_usage[i][1] :
                                        i \in 1..Len(lim.token_usage)})
         IN  Window - (t - oldest_token)
    ELSE 0

record_request(lim, t, tokens_used) ==
    [request_timestamps |-> Append(lim.request_timestamps, t),
     token_usage |-> IF tokens_used > 0
                     THEN Append(lim.token_usage, <<t, tokens_used>>)
                     ELSE lim.token_usage]

\* ------------------------------------------------------------------------
\* LLMInterface (llm.py)
\* ------------------------------------------------------------------------
Callers == 1..MaxCallers

api_type(p) ==
    CASE p = "openai" -> "openai"
      [] p = "deepseek" -> "openai"
      [] p = "anthropic" -> "anthropic"
      [] p = "gemini" -> "gemini"

\* Backend failures by kind; "other" is any exception outside the
\* provider's SDK error classes listed by _get_retriable_exceptions.
ErrorKinds == {"rate_limit", "timeout", "connection", "other"}

\* _get_retriable_exceptions: OpenAI's RateLimitError, APITimeoutError and
\* APIConnectionError for openai / deepseek; AnthropicRateLimitError and
\* AnthropicError (the base class of the SDK's errors) for anthropic; the
\* empty tuple for gemini.
is_retriable(p, kind) ==
    /\ p \in {"openai", "deepseek", "anthropic"}
    /\ kind \in {"rate_limit", "timeout", "connection"}

\* `if response.usage:` is false when the response carries no usage.
NoUsage == -1

CallIdle == [pc |-> "idle", method |-> "chat", est |-> 0, attempts |-> 0,
             usage |-> NoUsage, wake |-> 0, result |-> "none",
             error |-> "none", recorded |-> FALSE]

GWIdle ==
    /\ limiter = LimiterInit
    /\ rl_lock = 0
    /\ rpm_limit = 0
    /\ tpm_limit = 0
    /\ provider = "openai"
    /\ retry_attempts = 1
    /\ total_tokens_used = 0
    /\ call = [c \in Callers |-> CallIdle]
    /\ calls_started = 0
    /\ backend_calls = 0
    /\ admitted = <<>>

\* ------------------------------------------------------------------------
\* Agent (agent.py) and the loops that drive it: Agent.run, and the
\* streaming loops of server.py and services.py
\* ------------------------------------------------------------------------
Runs == 1..MaxRuns

\* max_step_retries of the streaming loops
max_step_retries == 3

RunIdle == [pc |-> "idle", retry_count |-> 0, err |-> "none", on |-> 0,
            fails |-> 0, outcome |-> "none", errors |-> 0]

\* The run is over: how it ended, and the events of type error it has
\* broadcast.
Ended(outcome, errors) ==
    [RunIdle EXCEPT !.pc = "ended", !.outcome = outcome, !.errors = errors]

ThreadIdle == [pc |-> "idle", run |-> 0, phase |-> "none", tools_left |-> 0,
               step_number |-> 0, exc |-> "none", kind |-> "none",
               transient |-> FALSE]

\* config.retry_attempts as shipped
default_retry_attempts == 3

AgentIdle ==
    /\ current_step = 0
    /\ is_running = FALSE
    /\ shutdown_requested = FALSE
    /\ max_iterations = 1
    /\ loop_kind = "run"
    /\ chats_left = 0
    /\ run = [r \in Runs |-> RunIdle]
    /\ th = [c \in Callers |-> ThreadIdle]
    /\ steps_started = [r \in Runs |-> 0]
    /\ stop_requested = [r \in Runs |-> FALSE]
    /\ think_failed = [r \in Runs |-> FALSE]
    /\ step_events = [r \in Runs |-> <<>>]

\* ------------------------------------------------------------------------
\* Agent._execute_tool_with_retry (agent.py)
\* ------------------------------------------------------------------------
ToolErrors == {"e1", "e2"}

\* What one tool.execute call does: it returns a result with success true,
\* returns a result with success false and an error text (possibly empty),
\* or raises an exception with a text.
ToolOutcomes ==
    {[kind |-> "ok", error |-> ""]}
    \cup [kind : {"fail"}, error : ToolErrors \cup {""}]
    \cup [kind : {"raise"}, error : ToolErrors]

NoResult == [success |-> FALSE, error |-> "", arguments |-> FALSE,
             by |-> "none"]

ToolIdle == [pc |-> "idle", max_retries |-> 0, attempt |-> 0, calls |-> 0,
             last_error |-> "None", result |-> NoResult, history |-> <<>>]

\* The sweep's part of the state while no sweep specification runs.
SweepIdle ==
    /\ last_activity = [w \in WS |-> 0]
    /\ last_traffic = [w \in WS |-> 0]
    /\ connection_timeout = 1
    /\ cm_op = [op |-> "init", connections |-> <<>>,
                last_activity |-> [w \in WS |-> 0], mq |-> MQInit]

AdminNone == [op |-> "none", stopped |-> 0]

Workers == 1..MaxWorkers

WorkerOff == [pc |-> "off", seen_entries |-> LimiterInit, seen_count |-> 0,
              wake |-> 0, recorded_at |-> 0]

ConcIdle == [job |-> "none", k |-> 0, cb_lock |-> 0,
             w |-> [t \in Workers |-> WorkerOff]]

StepThreads == 1..MaxStepThreads

StepThreadIdle == [pc |-> "idle", loop |-> 0, response |-> 0, k |-> 0,
                   i |-> 0, read |-> <<>>]

\* No chat yet: both loops unstarted ("new"), every thread idle.
StepperIdle == [loop |-> [l \in 1..MaxRuns |-> "new"],
                th |-> [t \in StepThreads |-> StepThreadIdle],
                steps |-> 0]

TranscriptIdle ==
    /\ memory = <<>>
    /\ stepper = StepperIdle

\* No backend response with tool calls is being handled.
ActIdle == [pc |-> "idle", tool_calls |-> <<>>, outcomes |-> <<>>,
            result |-> "None", step |-> "None", event |-> "None"]

UsageIdle == [reads |-> 0, pre |-> LimiterInit, at |-> 0,
              requests_in_window |-> 0, tokens_in_window |-> 0]

\* No _calculate_backoff call yet; attempt -1 stands for that.
BackoffIdle == [tool_retry_min_wait |-> 1, tool_retry_max_wait |-> 1,
                attempt |-> -1, wait_time |-> 0, previous_wait |-> 0,
                returned |-> 0]

AuxIdle ==
    /\ tool = ToolIdle
    /\ SweepIdle
    /\ admin = AdminNone
    /\ conc = ConcIdle
    /\ backoff = BackoffIdle
    /\ TranscriptIdle
    /\ rl_op = UsageIdle
    /\ act = ActIdle

\* ------------------------------------------------------------------------
\* SpecMQ: the queue driven directly
\* ------------------------------------------------------------------------
Idle == [pc |-> "idle", msg |-> NoMsg]

MQHarnessInit ==
    /\ mq = MQInit
    /\ next_msg = 1
    /\ pa = Idle
    /\ mq_op = [op |-> "init", pre |-> MQInit, msg |-> NoMsg, ok |-> TRUE]
    /\ handed = [m \in Msgs |-> 0]
    /\ failed = [m \in Msgs |-> 0]
    /\ delivered = <<>>

BcIdle == [pc |-> "idle", event |-> NoMsg, pending |-> <<>>,
           failed_connections |-> <<>>, successful_sends |-> <<>>]

CMIdle ==
    /\ connections = <<>>
    /\ ws_state = [w \in WS |-> "new"]
    /\ bc = BcIdle
    /\ ctask = [w \in WS |-> [pc |-> "idle", msg |-> NoMsg, ok |-> TRUE]]
    /\ received = [w \in WS |-> <<>>]
    /\ bc_log = [m \in Msgs |-> [done |-> FALSE, sent |-> FALSE,
                                 queued |-> FALSE]]
    /\ at_connect = [w \in WS |-> [connections |-> <<>>, queue |-> <<>>]]

InitMQ ==
    /\ max_size \in 0..MaxQueueSize
    /\ MQHarnessInit
    /\ CMIdle
    /\ CBIdle
    /\ GWIdle
    /\ AgentIdle
    /\ AuxIdle

\* await queue.enqueue(m) for a fresh message m.  It runs to completion: no
\* await inside it suspends.
Enqueue ==
    /\ next_msg <= MaxMsgs
    /\ LET r == enqueue(mq, next_msg, max_size)
       IN  /\ mq' = r.mq
           /\ mq_op' = [op |-> "enqueue", pre |-> mq, msg |-> next_msg,
                        ok |-> r.ok]
    /\ next_msg' = next_msg + 1
    /\ UNCHANGED <<max_size, pa, handed, failed, delivered>>

\* await queue.dequeue(timeout) by a consumer, while no process_all runs.
\* On an empty queue the wait times out and None is returned.
Dequeue ==
    /\ pa.pc = "idle"
    /\ IF is_empty(mq)
       THEN /\ mq_op' = [op |-> "dequeue", pre |-> mq, msg |-> NoMsg,
                         ok |-> FALSE]
            /\ UNCHANGED <<mq, delivered>>
       ELSE LET r == dequeue(mq)
            IN  /\ mq' = r.mq
                /\ mq_op' = [op |-> "dequeue", pre |-> mq, msg |-> r.message,
                             ok |-> TRUE]
                /\ delivered' = Append(delivered, r.message)
    /\ UNCHANGED <<max_size, next_msg, pa, handed, failed>>

\* The loop head of process_all up to the suspension in send_func:
\* `while not empty: message = dequeue(); await send_func(message)`.
\* Returns the queue after the dequeue and the message handed over
\* (NoMsg when the loop ends).  dequeue's own wait_for is taken as
\* immediate on a non-empty queue.
process_all_next(s) ==
    IF is_empty(s)
    THEN [mq |-> s, message |-> NoMsg]
    ELSE dequeue(s)

\* The rest of a loop iteration once send_func returned (ok) or raised.
process_all_after_send(s, m, ok, cap) ==
    IF ok THEN s ELSE requeue_after_failure(s, m, cap)

\* Bookkeeping of a send_func call on message m (none when m = NoMsg); the
\* model follows at most MaxHandoffs calls per message.
Handoff(m) ==
    /\ m # NoMsg => handed[m] < MaxHandoffs
    /\ handed' = IF m = NoMsg THEN handed ELSE [handed EXCEPT ![m] = @ + 1]

\* process_all(send_func) is called: runs to the first send_func call.
ProcessAllStart ==
    /\ pa.pc = "idle"
    /\ LET r == process_all_next(mq)
       IN  /\ Handoff(r.message)
           /\ mq' = r.mq
           /\ pa' = IF r.message = NoMsg THEN Idle
                    ELSE [pc |-> "sending", msg |-> r.message]
           /\ mq_op' = [op |-> "process_all", pre |-> mq, msg |-> r.message,
                        ok |-> TRUE]
    /\ UNCHANGED <<max_size, next_msg, failed, delivered>>

\* send_func(pa.msg) returns or raises; process_all handles the outcome and
\* runs on to the next send_func call, or returns.
ProcessAllStep(ok) ==
    /\ pa.pc = "sending"
    /\ LET s1 == process_all_after_send(mq, pa.msg, ok, max_size)
           r == process_all_next(s1)
       IN  /\ Handoff(r.message)
           /\ mq' = r.mq
           /\ pa' = IF r.message = NoMsg THEN Idle
                    ELSE [pc |-> "sending", msg |-> r.message]
           /\ mq_op' = [op |-> IF ok THEN "sent" ELSE "send_failed",
                        pre |-> mq, msg |-> pa.msg, ok |-> ok]
    /\ failed' = IF ok THEN failed ELSE [failed EXCEPT ![pa.msg] = @ + 1]
    /\ delivered' = IF ok THEN Append(delivered, pa.msg) ELSE delivered
    /\ UNCHANGED <<max_size, next_msg>>

ProcessAllSendOk == ProcessAllStep(TRUE)

ProcessAllSendFails == ProcessAllStep(FALSE)

\* await queue.clear()
Clear ==
    /\ pa.pc = "idle"
    /\ mq' = clear(mq)
    /\ mq_op' = [op |-> "clear", pre |-> mq, msg |-> NoMsg,
                 ok |-> is_empty(mq)]
    /\ UNCHANGED <<max_size, next_msg, pa, handed, failed, delivered>>

NextMQ ==
    \/ Enqueue /\ UNCHANGED <<cmVars, cbVars, gwVars, agVars, auxVars>>
    \/ Dequeue /\ UNCHANGED <<cmVars, cbVars, gwVars, agVars, auxVars>>
    \/ ProcessAllStart /\ UNCHANGED <<cmVars, cbVars, gwVars, agVars, auxVars>>
    \/ ProcessAllSendOk /\ UNCHANGED <<cmVars, cbVars, gwVars, agVars, auxVars>>
    \/ ProcessAllSendFails /\ UNCHANGED <<cmVars, cbVars, gwVars, agVars, auxVars>>
    \/ Clear /\ UNCHANGED <<cmVars, cbVars, gwVars, agVars, auxVars>>

SpecMQ == InitMQ /\ [][NextMQ]_vars


\* ------------------------------------------------------------------------
\* ConnectionManager (connection_manager.py) and SpecCM
\*
\* Tasks run under asyncio's cooperative scheduler: an action is the code
\* between two suspension points.  The suspension points are the awaits of
\* websocket.send_json; enqueue and disconnect never suspend.  The effect of
\* a send (the client receives the message, or the send fails because the
\* socket is closed) is fixed when send_json is called; the task then stays
\* suspended in the send until a later action resumes it.
\* ConnectionInfo's timestamps (last_activity, ping) are not part of this
\* specification.
\* ------------------------------------------------------------------------
Remove(seq, w) == SelectSeq(seq, LAMBDA x : x # w)

RemoveAll(seq, gone) ==
    SelectSeq(seq, LAMBDA x : \A i \in 1..Len(gone) : gone[i] # x)

\* websocket.send_json(m) on websocket w: raises when the socket is closed.
send_json_ok(w) == ws_state[w] = "open"

Deliver(rcv, w, m, ok) ==
    IF ok THEN [rcv EXCEPT ![w] = Append(@, m)] ELSE rcv

InitCM ==
    /\ max_size \in 0..MaxQueueSize
    /\ MQHarnessInit
    /\ CMIdle
    /\ CBIdle
    /\ GWIdle
    /\ AgentIdle
    /\ AuxIdle

\* broadcast(message) is called with the next event; events are broadcast
\* one after the other (the streaming loop awaits each broadcast).
\* No connection: enqueue and return.  Otherwise snapshot the registry and
\* call send_json on its first websocket.
BroadcastStart ==
    /\ bc.pc = "idle"
    /\ next_msg <= MaxMsgs
    /\ next_msg' = next_msg + 1
    /\ IF connections = <<>>
       THEN LET r == enqueue(mq, next_msg, max_size)
            IN  /\ mq' = r.mq
                /\ bc_log' = [bc_log EXCEPT ![next_msg] =
                       [done |-> TRUE, sent |-> FALSE, queued |-> r.ok]]
                /\ UNCHANGED <<bc, received>>
       ELSE LET w == Head(connections)
                ok == send_json_ok(w)
            IN  /\ bc' = [pc |-> "sending", event |-> next_msg,
                          pending |-> Tail(connections),
                          failed_connections |->
                              IF ok THEN <<>> ELSE <<w>>,
                          successful_sends |->
                              IF ok THEN <<w>> ELSE <<>>]
                /\ received' = Deliver(received, w, next_msg, ok)
                /\ UNCHANGED <<mq, bc_log>>
    /\ UNCHANGED <<connections, ws_state, ctask, at_connect>>

\* The broadcast resumes from a send and calls send_json on the next
\* websocket of its snapshot.
BroadcastSendNext ==
    /\ bc.pc = "sending"
    /\ bc.pending # <<>>
    /\ LET w == Head(bc.pending)
           ok == send_json_ok(w)
       IN  /\ bc' = [bc EXCEPT
                  !.pending = Tail(@),
                  !.failed_connections = IF ok THEN @ ELSE Append(@, w),
                  !.successful_sends = IF ok THEN Append(@, w) ELSE @]
           /\ received' = Deliver(received, w, bc.event, ok)
    /\ UNCHANGED <<mq, next_msg, connections, ws_state, ctask, bc_log,
                   at_connect>>

\* The broadcast resumes from its last send: the failed connections are
\* disconnected; `if not self.connections` the message is enqueued.
BroadcastFinish ==
    /\ bc.pc = "sending"
    /\ bc.pending = <<>>
    /\ LET left == RemoveAll(connections, bc.failed_connections)
           r == enqueue(mq, bc.event, max_size)
       IN  /\ connections' = left
           /\ mq' = IF left = <<>> THEN r.mq ELSE mq
           /\ bc_log' = [bc_log EXCEPT ![bc.event] =
                  [done |-> TRUE, sent |-> bc.successful_sends # <<>>,
                   queued |-> left = <<>> /\ r.ok]]
    /\ bc' = BcIdle
    /\ UNCHANGED <<next_msg, ws_state, ctask, received, at_connect>>

\* connect(websocket): accept, register, then _process_queued_messages up to
\* its first send (process_all with send_to_websocket as send_func).
Connect(w) ==
    /\ ws_state[w] = "new"
    /\ ws_state' = [ws_state EXCEPT ![w] = "open"]
    /\ connections' = Append(connections, w)
    /\ at_connect' = [at_connect EXCEPT ![w] =
           [connections |-> connections, queue |-> mq.queue]]
    /\ LET r == process_all_next(mq)
       IN  /\ mq' = r.mq
           /\ ctask' = [ctask EXCEPT ![w] =
                  IF r.message = NoMsg
                  THEN [pc |-> "done", msg |-> NoMsg, ok |-> TRUE]
                  ELSE [pc |-> "sending", msg |-> r.message, ok |-> TRUE]]
           /\ received' = Deliver(received, w, r.message, r.message # NoMsg)
           /\ Handoff(r.message)
    /\ UNCHANGED <<next_msg, bc, bc_log>>

\* The replay of connect(w) resumes from a send: a failed send re-enqueues
\* the message; the loop goes on to the next send, or connect returns.
ConnectReplayStep(w) ==
    /\ ctask[w].pc = "sending"
    /\ LET s1 == process_all_after_send(mq, ctask[w].msg, ctask[w].ok,
                                        max_size)
           r == process_all_next(s1)
           ok == send_json_ok(w)
       IN  /\ mq' = r.mq
           /\ ctask' = [ctask EXCEPT ![w] =
                  IF r.message = NoMsg
                  THEN [pc |-> "done", msg |-> NoMsg, ok |-> TRUE]
                  ELSE [pc |-> "sending", msg |-> r.message, ok |-> ok]]
           /\ received' = Deliver(received, w, r.message,
                                  r.message # NoMsg /\ ok)
           /\ Handoff(r.message)
    /\ UNCHANGED <<next_msg, connections, ws_state, bc, bc_log, at_connect>>

\* The client goes away (or the network drops): later sends to w raise.
ClientClose(w) ==
    /\ ws_state[w] = "open"
    /\ ws_state' = [ws_state EXCEPT ![w] = "closed"]
    /\ UNCHANGED <<mq, next_msg, connections, bc, ctask, received, bc_log,
                   at_connect>>

\* websocket_endpoint: after connect() returned, receive_text raises
\* WebSocketDisconnect on a closed socket and disconnect(w) is called;
\* disconnect removes w if it is still registered.
Disconnect(w) ==
    /\ ws_state[w] = "closed"
    /\ ctask[w].pc = "done"
    /\ ws_state' = [ws_state EXCEPT ![w] = "gone"]
    /\ connections' = Remove(connections, w)
    /\ UNCHANGED <<mq, next_msg, bc, ctask, received, bc_log, at_connect>>

cmFrame == <<max_size, pa, mq_op, failed, delivered, cbVars, gwVars,
            agVars, auxVars>>

NextCM ==
    \/ BroadcastStart /\ UNCHANGED <<cmFrame, handed>>
    \/ BroadcastSendNext /\ UNCHANGED <<cmFrame, handed>>
    \/ BroadcastFinish /\ UNCHANGED <<cmFrame, handed>>
    \/ \E w \in WS : Connect(w) /\ UNCHANGED cmFrame
    \/ \E w \in WS : ConnectReplayStep(w) /\ UNCHANGED cmFrame
    \/ \E w \in WS : ClientClose(w) /\ UNCHANGED <<cmFrame, handed>>
    \/ \E w \in WS : Disconnect(w) /\ UNCHANGED <<cmFrame, handed>>

SpecCM == InitCM /\ [][NextCM]_vars

\* The connection manager over an unbounded queue (max_size = 0), where
\* enqueue always succeeds.
InitCMUnbounded ==
    /\ max_size = 0
    /\ MQHarnessInit
    /\ CMIdle
    /\ CBIdle
    /\ GWIdle
    /\ AgentIdle
    /\ AuxIdle

SpecCMUnbounded == InitCMUnbounded /\ [][NextCM]_vars

\* ------------------------------------------------------------------------
\* SpecCB: the breaker driven directly.  Every method runs under the
\* breaker's lock, so each call is one action; Tick lets time pass.
\* ------------------------------------------------------------------------
InitCB ==
    /\ max_size = 0
    /\ MQHarnessInit
    /\ CMIdle
    /\ breaker = BreakerInit
    /\ failure_threshold \in 1..MaxThreshold
    /\ reset_timeout \in 0..MaxTimeout
    /\ now = 1
    /\ cb_op = [op |-> "init", pre |-> BreakerInit, at |-> 1,
                value |-> CLOSED, raised |-> FALSE]
    /\ streak = 0
    /\ last_fail_at = 0
    /\ opened_at = 0
    /\ reopened_at = 0
    /\ GWIdle
    /\ AgentIdle
    /\ AuxIdle

cbConfig == <<failure_threshold, reset_timeout>>

Tick ==
    /\ now < MaxTime
    /\ now' = now + 1
    /\ UNCHANGED <<breaker, cbConfig, cb_op, streak, last_fail_at,
                   opened_at, reopened_at>>

\* Bookkeeping shared by every action that records a failure at time `now`.
NoteFailure(pre, post) ==
    /\ streak' = streak + 1
    /\ last_fail_at' = now
    /\ opened_at' = IF pre.state # OPEN /\ post.state = OPEN
                    THEN now ELSE opened_at
    /\ reopened_at' = IF pre.state = HALF_OPEN THEN now ELSE reopened_at

\* Bookkeeping shared by every action that ends the run of failures.
NoteStreakEnd ==
    /\ streak' = 0
    /\ last_fail_at' = 0
    /\ opened_at' = 0
    /\ reopened_at' = 0

RecordFailure ==
    /\ breaker.failure_count < MaxFailures
    /\ breaker' = record_failure(breaker, now, failure_threshold)
    /\ cb_op' = [op |-> "record_failure", pre |-> breaker, at |-> now,
                 value |-> breaker'.state, raised |-> FALSE]
    /\ NoteFailure(breaker, breaker')
    /\ UNCHANGED <<cbConfig, now>>

RecordSuccess ==
    /\ breaker' = record_success(breaker)
    /\ cb_op' = [op |-> "record_success", pre |-> breaker, at |-> now,
                 value |-> breaker'.state, raised |-> FALSE]
    /\ NoteStreakEnd
    /\ UNCHANGED <<cbConfig, now>>

Reset ==
    /\ breaker' = reset(breaker)
    /\ cb_op' = [op |-> "reset", pre |-> breaker, at |-> now,
                 value |-> breaker'.state, raised |-> FALSE]
    /\ NoteStreakEnd
    /\ UNCHANGED <<cbConfig, now>>

\* A read of the `state` property (get_status reads it too).
StateRead ==
    /\ breaker' = state(breaker, now, reset_timeout)
    /\ cb_op' = [op |-> "state", pre |-> breaker, at |-> now,
                 value |-> breaker'.state, raised |-> FALSE]
    /\ UNCHANGED <<cbConfig, now, streak, last_fail_at, opened_at,
                   reopened_at>>

Check ==
    /\ breaker' = state(breaker, now, reset_timeout)
    /\ cb_op' = [op |-> "check", pre |-> breaker, at |-> now,
                 value |-> breaker'.state,
                 raised |-> check_raises(breaker, now, reset_timeout)]
    /\ UNCHANGED <<cbConfig, now, streak, last_fail_at, opened_at,
                   reopened_at>>

cbFrame == <<mqVars, cmVars, gwVars, agVars, auxVars>>

NextCB ==
    \/ Tick /\ UNCHANGED cbFrame
    \/ RecordFailure /\ UNCHANGED cbFrame
    \/ RecordSuccess /\ UNCHANGED cbFrame
    \/ Reset /\ UNCHANGED cbFrame
    \/ StateRead /\ UNCHANGED cbFrame
    \/ Check /\ UNCHANGED cbFrame

SpecCB == InitCB /\ [][NextCB]_vars

\* ------------------------------------------------------------------------
\* SpecGW: callers (threads) sharing one LLMInterface.  A thread can be
\* preempted anywhere, so an action is one lock-protected region, one
\* backend request or one sleep.
\* ------------------------------------------------------------------------
InitGW ==
    /\ max_size = 0
    /\ MQHarnessInit
    /\ CMIdle
    /\ breaker = BreakerInit
    /\ failure_threshold \in 1..MaxThreshold
    /\ reset_timeout = MaxTimeout
    /\ now = 1
    /\ cb_op = [op |-> "init", pre |-> BreakerInit, at |-> 1,
                value |-> CLOSED, raised |-> FALSE]
    /\ streak = 0
    /\ last_fail_at = 0
    /\ opened_at = 0
    /\ reopened_at = 0
    /\ limiter = LimiterInit
    /\ rl_lock = 0
    /\ rpm_limit \in 0..MaxRpm
    /\ tpm_limit \in {0, MaxTokens}
    /\ provider \in {"openai", "anthropic", "gemini"}
    /\ retry_attempts \in 1..MaxAttempts
    /\ total_tokens_used = 0
    /\ call = [c \in Callers |-> CallIdle]
    /\ calls_started = 0
    /\ backend_calls = 0
    /\ admitted = <<>>
    /\ AgentIdle
    /\ AuxIdle

gwConfig == <<rpm_limit, tpm_limit, provider, retry_attempts>>

cbGhost == <<cb_op, streak, last_fail_at, opened_at, reopened_at>>

\* The method's locals are gone once it has returned or raised.
Finish(c, result) ==
    [CallIdle EXCEPT !.pc = "done", !.method = call[c].method,
                     !.result = result]

\* A gateway that counts a rejected call as one more failure of the backend.
GatewayCall_counts_rejection(c, method, estimated_tokens) ==
    /\ call[c].pc = "idle"
    /\ calls_started < MaxCalls
    /\ calls_started' = calls_started + 1
    /\ IF method = "chat_with_tools"
          /\ api_type(provider) \notin {"openai", "gemini"}
       THEN /\ call' = [call EXCEPT ![c] =
                   [CallIdle EXCEPT !.pc = "done", !.method = method,
                                    !.result = "LLMError"]]
            /\ UNCHANGED breaker
       ELSE /\ breaker' =
                   IF check_raises(breaker, now, reset_timeout)
                   THEN record_failure(breaker, now, failure_threshold)
                   ELSE state(breaker, now, reset_timeout)
            /\ call' = [call EXCEPT ![c] =
                   IF check_raises(breaker, now, reset_timeout)
                   THEN [CallIdle EXCEPT !.pc = "done", !.method = method,
                                         !.result = "CircuitOpenError"]
                   ELSE [CallIdle EXCEPT !.pc = "rate_limit",
                                         !.method = method,
                                         !.est = estimated_tokens]]
    /\ UNCHANGED <<failure_threshold, reset_timeout, now, cbGhost, limiter,
                   rl_lock, gwConfig, total_tokens_used, backend_calls>>

\* chat(messages) / chat_with_tools(messages, tools) up to the rate limiter:
\* chat_with_tools first rejects an api_type without tool calling, then
\* both methods run circuit_breaker.check() and estimate the tokens.
GatewayCall(c, method, estimated_tokens) ==
    /\ call[c].pc = "idle"
    /\ calls_started < MaxCalls
    /\ calls_started' = calls_started + 1
    /\ IF method = "chat_with_tools"
          /\ api_type(provider) \notin {"openai", "gemini"}
       THEN /\ call' = [call EXCEPT ![c] =
                   [CallIdle EXCEPT !.pc = "done", !.method = method,
                                    !.result = "LLMError"]]
            /\ UNCHANGED breaker
       ELSE /\ breaker' = state(breaker, now, reset_timeout)
            /\ call' = [call EXCEPT ![c] =
                   IF check_raises(breaker, now, reset_timeout)
                   THEN [CallIdle EXCEPT !.pc = "done", !.method = method,
                                         !.result = "CircuitOpenError"]
                   ELSE [CallIdle EXCEPT !.pc = "rate_limit",
                                         !.method = method,
                                         !.est = estimated_tokens]]
    /\ UNCHANGED <<failure_threshold, reset_timeout, now, cbGhost, limiter,
                   rl_lock, gwConfig, total_tokens_used, backend_calls>>

\* rate_limiter.check_and_wait(est): takes the lock, purges, and either
\* passes both checks or goes to sleep in the RPM or the TPM branch with the
\* lock held.
\* A limiter that sleeps outside its lock.
CheckAndWait_sleeps_unlocked(c) ==
    /\ call[c].pc = "rate_limit"
    /\ rl_lock = 0
    /\ LET lim == _cleanup_old_entries(limiter, now)
           rw == rpm_wait_time(lim, now, rpm_limit)
           tw == tpm_wait_time(lim, now, tpm_limit, call[c].est)
       IN  /\ limiter' = lim
           /\ IF rw > 0
              THEN call' = [call EXCEPT ![c].pc = "sleep_rpm",
                                        ![c].wake = now + rw]
              ELSE IF tw > 0
              THEN call' = [call EXCEPT ![c].pc = "sleep_tpm",
                                        ![c].wake = now + tw]
              ELSE call' = [call EXCEPT ![c].pc = "calling", ![c].est = 0]
           /\ rl_lock' = 0
    /\ UNCHANGED <<cbVars, gwConfig, total_tokens_used, calls_started,
                   backend_calls>>

CheckAndWait(c) ==
    /\ call[c].pc = "rate_limit"
    /\ rl_lock = 0
    /\ LET lim == _cleanup_old_entries(limiter, now)
           rw == rpm_wait_time(lim, now, rpm_limit)
           tw == tpm_wait_time(lim, now, tpm_limit, call[c].est)
       IN  /\ limiter' = lim
           /\ IF rw > 0
              THEN /\ call' = [call EXCEPT ![c].pc = "sleep_rpm",
                                           ![c].wake = now + rw]
                   /\ rl_lock' = c
              ELSE IF tw > 0
              THEN /\ call' = [call EXCEPT ![c].pc = "sleep_tpm",
                                           ![c].wake = now + tw]
                   /\ rl_lock' = c
              ELSE /\ call' = [call EXCEPT ![c].pc = "calling", ![c].est = 0]
                   /\ rl_lock' = 0
    /\ UNCHANGED <<cbVars, gwConfig, total_tokens_used, calls_started,
                   backend_calls>>

\* time.sleep of the RPM branch is over: purge again, then the TPM branch.
WakeRpm(c) ==
    /\ call[c].pc = "sleep_rpm"
    /\ now >= call[c].wake
    /\ LET lim == _cleanup_old_entries(limiter, now)
           tw == tpm_wait_time(lim, now, tpm_limit, call[c].est)
       IN  /\ limiter' = lim
           /\ IF tw > 0
              THEN /\ call' = [call EXCEPT ![c].pc = "sleep_tpm",
                                           ![c].wake = now + tw]
                   /\ UNCHANGED rl_lock
              ELSE /\ call' = [call EXCEPT ![c].pc = "calling", ![c].est = 0,
                                           ![c].wake = 0]
                   /\ rl_lock' = 0
    /\ UNCHANGED <<cbVars, gwConfig, total_tokens_used, calls_started,
                   backend_calls>>

\* time.sleep of the TPM branch is over: purge, release the lock.
WakeTpm(c) ==
    /\ call[c].pc = "sleep_tpm"
    /\ now >= call[c].wake
    /\ limiter' = _cleanup_old_entries(limiter, now)
    /\ call' = [call EXCEPT ![c].pc = "calling", ![c].est = 0, ![c].wake = 0]
    /\ rl_lock' = 0
    /\ UNCHANGED <<cbVars, gwConfig, total_tokens_used, calls_started,
                   backend_calls>>

\* One backend request inside the tenacity retry loop succeeds; usage is the
\* response's total token count (0 when the usage object has no known
\* field), or NoUsage.
AttemptSucceeds(c, usage) ==
    /\ call[c].pc = "calling"
    /\ backend_calls' = backend_calls + 1
    /\ call' = [call EXCEPT ![c].attempts = 0,
                            ![c].usage = usage,
                            ![c].pc = IF usage = NoUsage THEN "success"
                                      ELSE "record"]
    /\ UNCHANGED <<cbVars, limiter, rl_lock, gwConfig, total_tokens_used,
                   calls_started>>

\* One backend request raises.  A retriable error is retried after a
\* backoff sleep until stop_after_attempt(retry_attempts); the last one is
\* re-raised into the except-branch of the method.  Any other error
\* propagates to the caller at once.
\* The call's record after a backend request raised an error of this kind.
after_failed_attempt(c, kind) ==
    IF ~is_retriable(provider, kind)
    THEN [Finish(c, "BackendException") EXCEPT !.error = kind]
    ELSE IF call[c].attempts + 1 >= retry_attempts
    THEN [call[c] EXCEPT !.attempts = @ + 1, !.pc = "exhausted",
                         !.error = kind]
    ELSE [call[c] EXCEPT !.attempts = @ + 1, !.pc = "backoff",
                         !.error = kind]

\* A gateway that counts every failed attempt as a failure of the backend.
AttemptFails_counts_each_attempt(c, kind) ==
    /\ call[c].pc = "calling"
    /\ backend_calls' = backend_calls + 1
    /\ call' = [call EXCEPT ![c] = after_failed_attempt(c, kind)]
    /\ breaker' = IF is_retriable(provider, kind)
                     /\ breaker.failure_count < MaxFailures
                  THEN record_failure(breaker, now, failure_threshold)
                  ELSE breaker
    /\ UNCHANGED <<failure_threshold, reset_timeout, now, cbGhost, limiter,
                   rl_lock, gwConfig, total_tokens_used, calls_started>>

\* A gateway that retries whatever the backend raised.
AttemptFails_retries_everything(c, kind) ==
    /\ call[c].pc = "calling"
    /\ backend_calls' = backend_calls + 1
    /\ call' = [call EXCEPT ![c] =
           IF call[c].attempts + 1 >= retry_attempts
           THEN [Finish(c, "BackendException") EXCEPT !.error = kind]
           ELSE [call[c] EXCEPT !.attempts = @ + 1, !.pc = "backoff",
                                !.error = kind]]
    /\ UNCHANGED <<cbVars, limiter, rl_lock, gwConfig, total_tokens_used,
                   calls_started>>

\* A gateway that counts whatever the backend raised as a failure.
AttemptFails_counts_every_error(c, kind) ==
    /\ call[c].pc = "calling"
    /\ backend_calls' = backend_calls + 1
    /\ call' = [call EXCEPT ![c] = after_failed_attempt(c, kind)]
    /\ breaker' = IF ~is_retriable(provider, kind)
                     /\ breaker.failure_count < MaxFailures
                  THEN record_failure(breaker, now, failure_threshold)
                  ELSE breaker
    /\ UNCHANGED <<failure_threshold, reset_timeout, now, cbGhost, limiter,
                   rl_lock, gwConfig, total_tokens_used, calls_started>>

AttemptFails(c, kind) ==
    /\ call[c].pc = "calling"
    /\ backend_calls' = backend_calls + 1
    /\ call' = [call EXCEPT ![c] = after_failed_attempt(c, kind)]
    /\ UNCHANGED <<cbVars, limiter, rl_lock, gwConfig, total_tokens_used,
                   calls_started>>

\* The backoff sleep between two attempts is over.
BackoffOver(c) ==
    /\ call[c].pc = "backoff"
    /\ call' = [call EXCEPT ![c].pc = "calling", ![c].error = "none"]
    /\ UNCHANGED <<cbVars, limiter, rl_lock, gwConfig, total_tokens_used,
                   calls_started, backend_calls>>

\* `if response.usage:` total_tokens_used += n; record_request(n)
RecordRequest(c) ==
    /\ call[c].pc = "record"
    /\ rl_lock = 0
    /\ total_tokens_used' = total_tokens_used + call[c].usage
    /\ limiter' = record_request(limiter, now, call[c].usage)
    /\ call' = [call EXCEPT ![c].pc = "success", ![c].usage = NoUsage,
                            ![c].recorded = TRUE]
    /\ UNCHANGED <<cbVars, rl_lock, gwConfig, calls_started, backend_calls>>

\* circuit_breaker.record_success(); return the response
CallSucceeds(c) ==
    /\ call[c].pc = "success"
    /\ breaker' = record_success(breaker)
    /\ call' = [call EXCEPT ![c] = Finish(c, "ok")]
    /\ UNCHANGED <<failure_threshold, reset_timeout, now, cbGhost, limiter,
                   rl_lock, gwConfig, total_tokens_used, calls_started,
                   backend_calls>>

\* except <retriable>: circuit_breaker.record_failure(); raise LLMError
CallExhausted(c) ==
    /\ call[c].pc = "exhausted"
    /\ breaker.failure_count < MaxFailures
    /\ breaker' = record_failure(breaker, now, failure_threshold)
    /\ call' = [call EXCEPT ![c] = Finish(c, "LLMError")]
    /\ UNCHANGED <<failure_threshold, reset_timeout, now, cbGhost, limiter,
                   rl_lock, gwConfig, total_tokens_used, calls_started,
                   backend_calls>>

\* The caller has taken the result; it may call again.
CallReturns(c) ==
    /\ call[c].pc = "done"
    /\ call' = [call EXCEPT ![c] = CallIdle]
    /\ UNCHANGED <<cbVars, limiter, rl_lock, gwConfig, total_tokens_used,
                   calls_started, backend_calls>>

GWTick == Tick /\ UNCHANGED gwVars

gwFrame == <<mqVars, cmVars, admitted, agVars, auxVars>>

NextGW ==
    \/ GWTick /\ UNCHANGED gwFrame
    \/ \E c \in Callers, m \in {"chat", "chat_with_tools"},
          e \in 1..MaxTokens :
           GatewayCall(c, m, e) /\ UNCHANGED gwFrame
    \/ \E c \in Callers : CheckAndWait(c) /\ UNCHANGED gwFrame
    \/ \E c \in Callers : WakeRpm(c) /\ UNCHANGED gwFrame
    \/ \E c \in Callers : WakeTpm(c) /\ UNCHANGED gwFrame
    \/ \E c \in Callers, u \in {NoUsage} \cup 0..MaxTokens :
           AttemptSucceeds(c, u) /\ UNCHANGED gwFrame
    \/ \E c \in Callers, k \in ErrorKinds :
           AttemptFails(c, k) /\ UNCHANGED gwFrame
    \/ \E c \in Callers : BackoffOver(c) /\ UNCHANGED gwFrame
    \/ \E c \in Callers : RecordRequest(c) /\ UNCHANGED gwFrame
    \/ \E c \in Callers : CallSucceeds(c) /\ UNCHANGED gwFrame
    \/ \E c \in Callers : CallExhausted(c) /\ UNCHANGED gwFrame
    \/ \E c \in Callers : CallReturns(c) /\ UNCHANGED gwFrame

SpecGW == InitGW /\ [][NextGW]_vars

\* ------------------------------------------------------------------------
\* SpecRL: the rate limiter driven by concurrent callers that follow the
\* gateway's protocol: check_and_wait(estimate), the backend call, then
\* record_request(tokens) -- or no record_request, as on the gateway's
\* failure paths and for a response without usage.
\* ------------------------------------------------------------------------
InitRL ==
    /\ max_size = 0
    /\ MQHarnessInit
    /\ CMIdle
    /\ CBIdle
    /\ limiter = LimiterInit
    /\ rl_lock = 0
    /\ rpm_limit \in 0..MaxRpm
    /\ tpm_limit \in {0, MaxTokens}
    /\ provider = "openai"
    /\ retry_attempts = 1
    /\ total_tokens_used = 0
    /\ call = [c \in Callers |-> CallIdle]
    /\ calls_started = 0
    /\ backend_calls = 0
    /\ admitted = <<>>
    /\ AgentIdle
    /\ AuxIdle

\* The admission times after a step of caller c: its check_and_wait has
\* returned when the caller has reached the backend call.
NoteAdmission(c) ==
    admitted' = IF call[c].pc # "calling" /\ call'[c].pc = "calling"
                THEN Append(admitted, now) ELSE admitted

\* A caller arrives at rate_limiter.check_and_wait(estimated_tokens).
RLArrive(c, estimated_tokens) ==
    /\ call[c].pc = "idle"
    /\ calls_started < MaxCalls
    /\ calls_started' = calls_started + 1
    /\ call' = [call EXCEPT ![c] = [CallIdle EXCEPT !.pc = "rate_limit",
                                                   !.est = estimated_tokens]]
    /\ UNCHANGED <<cbVars, limiter, rl_lock, gwConfig, total_tokens_used,
                   backend_calls, admitted>>

RLCheckAndWait(c) == CheckAndWait(c) /\ NoteAdmission(c)

RLWakeRpm(c) == WakeRpm(c) /\ NoteAdmission(c)

RLWakeTpm(c) == WakeTpm(c) /\ NoteAdmission(c)

\* rate_limiter.record_request(tokens_used) after the backend call.
RLRecordRequest(c, tokens_used) ==
    /\ call[c].pc = "calling"
    /\ rl_lock = 0
    /\ limiter' = record_request(limiter, now, tokens_used)
    /\ call' = [call EXCEPT ![c] = CallIdle]
    /\ UNCHANGED <<cbVars, rl_lock, gwConfig, total_tokens_used,
                   calls_started, backend_calls, admitted>>

\* The backend call ends without record_request (the call raised, or the
\* response carries no usage).
RLNoRecord(c) ==
    /\ call[c].pc = "calling"
    /\ call' = [call EXCEPT ![c] = CallIdle]
    /\ UNCHANGED <<cbVars, limiter, rl_lock, gwConfig, total_tokens_used,
                   calls_started, backend_calls, admitted>>

rlFrame == <<mqVars, cmVars, agVars, auxVars>>

NextRL ==
    \/ GWTick /\ UNCHANGED rlFrame
    \/ \E c \in Callers, e \in 1..MaxTokens :
           RLArrive(c, e) /\ UNCHANGED rlFrame
    \/ \E c \in Callers : RLCheckAndWait(c) /\ UNCHANGED rlFrame
    \/ \E c \in Callers : RLWakeRpm(c) /\ UNCHANGED rlFrame
    \/ \E c \in Callers : RLWakeTpm(c) /\ UNCHANGED rlFrame
    \/ \E c \in Callers, t \in 0..MaxTokens :
           RLRecordRequest(c, t) /\ UNCHANGED rlFrame
    \/ \E c \in Callers : RLNoRecord(c) /\ UNCHANGED rlFrame

SpecRL == InitRL /\ [][NextRL]_vars

\* ------------------------------------------------------------------------
\* SpecUsage: SpecRL with the status query, which reads the limiter's usage
\* at any time the lock is free.
\* ------------------------------------------------------------------------
\* get_current_usage(): purge under the lock, then count.
GetCurrentUsage ==
    /\ rl_lock = 0
    /\ rl_op.reads < MaxReads
    /\ limiter' = _cleanup_old_entries(limiter, now)
    /\ rl_op' = [reads |-> rl_op.reads + 1, pre |-> limiter, at |-> now,
                 requests_in_window |-> Len(limiter'.request_timestamps),
                 tokens_in_window |-> SumTokens(limiter'.token_usage)]
    /\ UNCHANGED <<cbVars, rl_lock, gwConfig, total_tokens_used, call,
                   calls_started, backend_calls, admitted>>

usageFrame == <<mqVars, cmVars, agVars, tool, last_activity,
                connection_timeout, last_traffic, cm_op, admin, conc, backoff,
                memory, stepper, act>>

NextUsage ==
    \/ GWTick /\ UNCHANGED rlFrame
    \/ \E c \in Callers, e \in 1..MaxTokens :
           RLArrive(c, e) /\ UNCHANGED rlFrame
    \/ \E c \in Callers : RLCheckAndWait(c) /\ UNCHANGED rlFrame
    \/ \E c \in Callers : RLWakeRpm(c) /\ UNCHANGED rlFrame
    \/ \E c \in Callers : RLWakeTpm(c) /\ UNCHANGED rlFrame
    \/ \E c \in Callers, t \in 0..MaxTokens :
           RLRecordRequest(c, t) /\ UNCHANGED rlFrame
    \/ \E c \in Callers : RLNoRecord(c) /\ UNCHANGED rlFrame
    \/ GetCurrentUsage /\ UNCHANGED usageFrame

SpecUsage == InitRL /\ [][NextUsage]_vars

\* ------------------------------------------------------------------------
\* SpecAgent: runs on the one agent.  A run is Agent.run or a streaming
\* task; each agent.step() executes in an executor thread, whose THINK is a
\* gateway call of that thread.  The clock stands still and the rate limits
\* are disabled.
\* ------------------------------------------------------------------------
\* The configurations explored: every provider, threshold, attempt limit,
\* iteration limit and loop with one chat message; a second chat message,
\* which may arrive while the first run is active, with the streaming loops,
\* the largest iteration limit and a provider whose failures the gateway
\* does not retry.
explored ==
    \/ chats_left = 1
    \/ /\ chats_left = MaxRuns
       /\ loop_kind # "run"
       /\ provider = "gemini"
       /\ failure_threshold = 1
       /\ retry_attempts = default_retry_attempts
       /\ max_iterations = MaxIterations

InitAgent ==
    /\ max_size = 0
    /\ MQHarnessInit
    /\ CMIdle
    /\ breaker = BreakerInit
    /\ failure_threshold \in 1..MaxThreshold
    /\ reset_timeout = MaxTimeout
    /\ now = 1
    /\ cb_op = [op |-> "init", pre |-> BreakerInit, at |-> 1,
                value |-> CLOSED, raised |-> FALSE]
    /\ streak = 0
    /\ last_fail_at = 0
    /\ opened_at = 0
    /\ reopened_at = 0
    /\ limiter = LimiterInit
    /\ rl_lock = 0
    /\ rpm_limit = 0
    /\ tpm_limit = 0
    /\ provider \in {"openai", "anthropic", "gemini"}
    /\ retry_attempts \in {1, default_retry_attempts}
    /\ total_tokens_used = 0
    /\ call = [c \in Callers |-> CallIdle]
    /\ calls_started = 0
    /\ backend_calls = 0
    /\ admitted = <<>>
    /\ current_step = 0
    /\ is_running = FALSE
    /\ shutdown_requested = FALSE
    /\ max_iterations \in 1..MaxIterations
    /\ loop_kind \in {"run", "server", "service"}
    /\ AuxIdle
    /\ chats_left \in 1..MaxRuns
    /\ explored
    /\ run = [r \in Runs |-> RunIdle]
    /\ th = [c \in Callers |-> ThreadIdle]
    /\ steps_started = [r \in Runs |-> 0]
    /\ stop_requested = [r \in Runs |-> FALSE]
    /\ think_failed = [r \in Runs |-> FALSE]
    /\ step_events = [r \in Runs |-> <<>>]

agConfig == <<max_iterations, loop_kind>>

Active(r) == run[r].pc \notin {"idle", "ended"}

\* agent.step() starts in executor thread c for run r: current_step += 1,
\* then llm.chat_with_tools up to the rate limiter.
Dispatch(r, c) ==
    /\ th[c].pc = "idle"
    /\ \A d \in Callers : d < c => th[d].pc # "idle"
    /\ current_step' = current_step + 1
    /\ GatewayCall(c, "chat_with_tools", 1)
    /\ th' = [th EXCEPT ![c] = [ThreadIdle EXCEPT !.pc = "think", !.run = r]]
    /\ steps_started' = [steps_started EXCEPT ![r] = @ + 1]
    /\ UNCHANGED admitted

\* A run starts: Agent.run, or _stream_agent_response up to its loop.
RunStart(r) ==
    /\ run[r].pc = "idle"
    /\ r > 1 => run[r - 1].pc # "idle"
    /\ chats_left > 0
    /\ chats_left' = chats_left - 1
    /\ run' = [run EXCEPT ![r].pc = "top"]
    /\ current_step' = 0
    /\ is_running' = TRUE
    /\ shutdown_requested' = IF loop_kind = "run" THEN FALSE
                             ELSE shutdown_requested
    /\ UNCHANGED <<agConfig, th, steps_started, stop_requested, think_failed,
                   step_events, cbVars, gwVars>>

\* The loop condition (and Agent.run's shutdown check) at the top of an
\* iteration.
loop_continues ==
    /\ is_running
    /\ current_step < max_iterations
    /\ loop_kind = "run" => ~shutdown_requested

LoopExit(r) ==
    /\ run[r].pc = "top"
    /\ ~loop_continues
    /\ run' = [run EXCEPT ![r] = Ended("exit", run[r].errors)]
    /\ UNCHANGED <<current_step, is_running, shutdown_requested, agConfig, chats_left, th,
                   steps_started, stop_requested, think_failed, step_events,
                   cbVars, gwVars>>

LoopDispatch(r, c) ==
    /\ run[r].pc = "top"
    /\ loop_continues
    /\ Dispatch(r, c)
    /\ run' = [run EXCEPT ![r] = [RunIdle EXCEPT !.pc = "wait", !.on = c,
                                                 !.errors = run[r].errors]]
    /\ UNCHANGED <<is_running, shutdown_requested, agConfig, chats_left, stop_requested,
                   think_failed, step_events>>

\* chat_with_tools returned: a response with k tool calls (k = 0: the final
\* answer, and step() returns a respond step).
ThinkResponds(c, k) ==
    /\ th[c].pc = "think"
    /\ call[c].pc = "done"
    /\ call[c].result = "ok"
    /\ CallReturns(c)
    /\ th' = [th EXCEPT ![c] =
           IF k = 0
           THEN [th[c] EXCEPT !.pc = "finished", !.phase = "respond",
                              !.step_number = current_step]
           ELSE [th[c] EXCEPT !.pc = "act", !.tools_left = k]]
    /\ UNCHANGED <<current_step, is_running, shutdown_requested, agConfig, chats_left, run,
                   steps_started, stop_requested, think_failed, step_events,
                   admitted>>

\* The message of CircuitOpenError ("... Retry after <n>s") holds the
\* keyword "retry" of _is_transient_error and no keyword of
\* _is_permanent_error; the message of the LLMError for a provider without
\* tool calling holds none; any other message is the backend's.
looks_transient(c, b) ==
    CASE call[c].result = "CircuitOpenError" -> b = TRUE
      [] call[c].result = "LLMError" /\ api_type(provider) = "anthropic" ->
             b = FALSE
      [] OTHER -> TRUE

\* chat_with_tools raised: step() raises the same exception.
ThinkRaises(c, b) ==
    /\ th[c].pc = "think"
    /\ call[c].pc = "done"
    /\ call[c].result # "ok"
    /\ looks_transient(c, b)
    /\ CallReturns(c)
    /\ th' = [th EXCEPT ![c] = [th[c] EXCEPT !.pc = "raised",
                                             !.exc = call[c].result,
                                             !.kind = call[c].error,
                                             !.transient = b]]
    /\ UNCHANGED <<current_step, is_running, shutdown_requested, agConfig, chats_left, run,
                   steps_started, stop_requested, think_failed, step_events,
                   admitted>>

\* _handle_tool_calls executes the next requested tool call; after the last
\* one step() returns an act step.
Act(c) ==
    /\ th[c].pc = "act"
    /\ th' = [th EXCEPT ![c] =
           IF th[c].tools_left = 1
           THEN [th[c] EXCEPT !.pc = "finished", !.phase = "act",
                              !.tools_left = 0,
                              !.step_number = current_step]
           ELSE [th[c] EXCEPT !.tools_left = @ - 1]]
    /\ UNCHANGED <<current_step, is_running, shutdown_requested, agConfig, chats_left, run,
                   steps_started, stop_requested, think_failed, step_events,
                   cbVars, gwVars>>

\* The run gets the step it waited for: the streaming loops broadcast it; a
\* respond step ends the run.
CollectStep(r) ==
    /\ run[r].pc = "wait"
    /\ th[run[r].on].pc = "finished"
    /\ LET step == th[run[r].on]
       IN  /\ step_events' =
                  IF loop_kind = "run" THEN step_events
                  ELSE [step_events EXCEPT ![r] = Append(@, step.step_number)]
           /\ is_running' = IF step.phase = "respond" THEN FALSE
                            ELSE is_running
           /\ run' = [run EXCEPT ![r] =
                  IF step.phase = "respond"
                  THEN Ended("complete", run[r].errors)
                  ELSE [RunIdle EXCEPT !.pc = "top",
                                       !.errors = run[r].errors]]
    /\ th' = [th EXCEPT ![run[r].on] = ThreadIdle]
    /\ UNCHANGED <<current_step, shutdown_requested, agConfig, chats_left, steps_started,
                   stop_requested, think_failed, cbVars, gwVars>>

\* The backend failures that are transient: timeouts, connection and rate
\* limit errors.
transient_kinds == {"timeout", "connection", "rate_limit"}

\* A loop that announces every failed attempt with an event of type error.
error_events_after_announces_retries(r, ends) ==
    IF loop_kind # "run" THEN run[r].errors + 1 ELSE run[r].errors

\* The events of type error run r has broadcast once it has handled a failed
\* step: a streaming loop announces a retry with an event of type step, and
\* the end of the run with one event of type error; Agent.run broadcasts
\* nothing.
error_events_after(r, ends) ==
    IF ends /\ loop_kind # "run" THEN run[r].errors + 1 ELSE run[r].errors

\* step() raised into the loop (an LLMError of an api_type with tool calling
\* is the one raised after the last attempt).  Agent.run ends; a streaming
\* loop announces a retry (a step event numbered current_step) and sleeps when the error
\* looks transient and retries are left, else it broadcasts the error and
\* ends.
CollectRaise(r) ==
    /\ run[r].pc = "wait"
    /\ th[run[r].on].pc = "raised"
    /\ LET e == th[run[r].on]
           retries == run[r].retry_count + 1
       IN  /\ think_failed' = [think_failed EXCEPT ![r] =
                  \/ @
                  \/ e.exc = "CircuitOpenError"
                  \/ e.exc = "LLMError" /\ api_type(provider) = "openai"]
           /\ IF loop_kind # "run" /\ e.transient
                 /\ retries < max_step_retries
              THEN /\ run' = [run EXCEPT ![r] =
                          [RunIdle EXCEPT
                               !.pc = "retry_sleep",
                               !.retry_count = retries,
                               !.err = e.exc,
                               !.fails = IF e.kind \in transient_kinds
                                         THEN run[r].fails + 1
                                         ELSE run[r].fails,
                               !.errors = error_events_after(r, FALSE)]]
                   /\ step_events' = [step_events EXCEPT ![r] =
                          Append(@, current_step)]
                   /\ UNCHANGED is_running
              ELSE /\ run' = [run EXCEPT ![r] =
                          Ended("error", error_events_after(r, TRUE))]
                   /\ is_running' = IF loop_kind = "run" THEN is_running
                                    ELSE FALSE
                   /\ UNCHANGED step_events
    /\ th' = [th EXCEPT ![run[r].on] = ThreadIdle]
    /\ UNCHANGED <<current_step, shutdown_requested, agConfig, chats_left,
                   steps_started, stop_requested, cbVars, gwVars>>

\* The retry sleep is over: the inner loop dispatches agent.step() again;
\* after a timeout services.py first sets the flags back.
RetryDispatch(r, c) ==
    /\ run[r].pc = "retry_sleep"
    /\ Dispatch(r, c)
    /\ run' = [run EXCEPT ![r].pc = "wait", ![r].on = c]
    /\ is_running' = IF run[r].err = "timeout" THEN TRUE ELSE is_running
    /\ shutdown_requested' = IF run[r].err = "timeout" THEN FALSE
                             ELSE shutdown_requested
    /\ UNCHANGED <<agConfig, chats_left, stop_requested, think_failed, step_events>>

\* services.py, _run_step_with_timeout: wait_for expires while the step is
\* executing.  The executor thread cannot be cancelled and goes on.
StepTimeout(r) ==
    /\ loop_kind = "service"
    /\ run[r].pc = "wait"
    /\ th[run[r].on].pc \in {"think", "act"}
    /\ shutdown_requested' = TRUE
    /\ is_running' = FALSE
    /\ LET retries == run[r].retry_count + 1
       IN  IF retries < max_step_retries
           THEN /\ run' = [run EXCEPT ![r] =
                       [RunIdle EXCEPT !.pc = "retry_sleep",
                                       !.retry_count = retries,
                                       !.err = "timeout",
                                       !.fails = run[r].fails,
                                       !.errors =
                                           error_events_after(r, FALSE)]]
                /\ step_events' = [step_events EXCEPT ![r] =
                       Append(@, current_step)]
           ELSE /\ run' = [run EXCEPT ![r] =
                       Ended("error", error_events_after(r, TRUE))]
                /\ UNCHANGED step_events
    /\ UNCHANGED <<current_step, agConfig, chats_left, th, steps_started, stop_requested,
                   think_failed, cbVars, gwVars>>

\* A step nobody waits for any more ends in its thread.
AbandonedStepEnds(c) ==
    /\ th[c].pc \in {"finished", "raised"}
    /\ \A r \in Runs : run[r].on # c
    /\ th' = [th EXCEPT ![c] = ThreadIdle]
    /\ UNCHANGED <<current_step, is_running, shutdown_requested, agConfig, chats_left, run,
                   steps_started, stop_requested, think_failed, step_events,
                   cbVars, gwVars>>

\* A stop message, the administrative stop or a termination signal.
Stop ==
    /\ \E r \in Runs : Active(r)
    /\ is_running' = FALSE
    /\ shutdown_requested' = TRUE
    /\ stop_requested' = [r \in Runs |-> stop_requested[r] \/ Active(r)]
    /\ UNCHANGED <<current_step, agConfig, chats_left, run, th, steps_started,
                   think_failed, step_events, cbVars, gwVars>>

agFrame == <<mqVars, cmVars, auxVars>>

gwStepFrame == <<mqVars, cmVars, admitted, agVars, auxVars>>

NextAgent ==
    \/ \E r \in Runs : RunStart(r) /\ UNCHANGED agFrame
    \/ \E r \in Runs : LoopExit(r) /\ UNCHANGED agFrame
    \/ \E r \in Runs, c \in Callers : LoopDispatch(r, c) /\ UNCHANGED agFrame
    \/ \E c \in Callers : CheckAndWait(c) /\ UNCHANGED gwStepFrame
    \/ \E c \in Callers : AttemptSucceeds(c, NoUsage) /\ UNCHANGED gwStepFrame
    \/ \E c \in Callers, k \in {"timeout", "other"} :
           AttemptFails(c, k) /\ UNCHANGED gwStepFrame
    \/ \E c \in Callers : BackoffOver(c) /\ UNCHANGED gwStepFrame
    \/ \E c \in Callers : CallSucceeds(c) /\ UNCHANGED gwStepFrame
    \/ \E c \in Callers : CallExhausted(c) /\ UNCHANGED gwStepFrame
    \/ \E c \in Callers, k \in 0..MaxToolCalls :
           ThinkResponds(c, k) /\ UNCHANGED agFrame
    \/ \E c \in Callers, b \in BOOLEAN : ThinkRaises(c, b) /\ UNCHANGED agFrame
    \/ \E c \in Callers : Act(c) /\ UNCHANGED agFrame
    \/ \E r \in Runs : CollectStep(r) /\ UNCHANGED agFrame
    \/ \E r \in Runs : CollectRaise(r) /\ UNCHANGED agFrame
    \/ \E r \in Runs, c \in Callers : RetryDispatch(r, c) /\ UNCHANGED agFrame
    \/ \E r \in Runs : StepTimeout(r) /\ UNCHANGED agFrame
    \/ \E c \in Callers : AbandonedStepEnds(c) /\ UNCHANGED agFrame
    \/ Stop /\ UNCHANGED agFrame

SpecAgent == InitAgent /\ [][NextAgent]_vars

\* ------------------------------------------------------------------------
\* SpecSweep: the registry with the clock.  Connections are accepted, are
\* active (they send a message, answer a ping, receive a broadcast), close,
\* and the background task sweeps the stale ones.  Every websocket.send_json
\* succeeds here (a failing send is SpecCM's matter), and the sweep runs at
\* any time, not only every 30 s.  The clock unit is arbitrary.
\* ------------------------------------------------------------------------
InitSweep ==
    /\ max_size \in 0..MaxQueueSize
    /\ MQHarnessInit
    /\ CMIdle
    /\ CBIdle
    /\ GWIdle
    /\ AgentIdle
    /\ tool = ToolIdle
    /\ admin = AdminNone
    /\ conc = ConcIdle
    /\ backoff = BackoffIdle
    /\ TranscriptIdle
    /\ rl_op = UsageIdle
    /\ act = ActIdle
    /\ last_activity = [w \in WS |-> 0]
    /\ last_traffic = [w \in WS |-> 0]
    /\ connection_timeout \in 1..MaxTimeout
    /\ cm_op = [op |-> "init", connections |-> <<>>,
                last_activity |-> [w \in WS |-> 0], mq |-> MQInit]

Registered(w) == \E i \in 1..Len(connections) : connections[i] = w

Found(op) == [op |-> op, connections |-> connections,
              last_activity |-> last_activity, mq |-> mq]

SweepTick ==
    /\ now < MaxTime
    /\ now' = now + 1
    /\ cm_op' = Found("tick")
    /\ UNCHANGED <<connections, last_activity, last_traffic, mq, next_msg>>

\* process_all with a send that succeeds every time: the queue is drained.
RECURSIVE drain(_)
drain(s) == IF is_empty(s) THEN s ELSE drain(dequeue(s).mq)

\* connect(websocket): a ConnectionInfo is created (last_activity = now)
\* and registered, and the queued messages are sent to the websocket.
SweepConnect(w) ==
    /\ ~Registered(w)
    /\ connections' = Append(connections, w)
    /\ last_activity' = [last_activity EXCEPT ![w] = now]
    /\ last_traffic' = [last_traffic EXCEPT ![w] = now]
    /\ mq' = drain(mq)
    /\ cm_op' = Found("connect")
    /\ UNCHANGED <<now, next_msg>>

\* What a client sends: the four message types of parse_ws_message, a JSON
\* object of another type, and text that is not JSON.
ClientMessages == {"chat", "stop", "ping", "open_file", "unknown",
                   "invalid_json"}

\* websocket_endpoint calls manager.update_activity(websocket) in the chat,
\* stop, open_file and unknown-type branches and manager.update_ping in the
\* ping branch; the json.JSONDecodeError handler calls neither.
updates_activity(kind) == kind # "invalid_json"

\* One message received by websocket_endpoint from a connected client, as
\* far as the registry is concerned.
ClientMessage(w, kind) ==
    /\ Registered(w)
    /\ last_activity' = IF updates_activity(kind)
                        THEN [last_activity EXCEPT ![w] = now]
                        ELSE last_activity
    /\ last_traffic' = [last_traffic EXCEPT ![w] = now]
    /\ cm_op' = Found("message")
    /\ UNCHANGED <<connections, now, mq, next_msg>>

\* broadcast(message): queued when no connection is registered, else sent
\* to every connection, whose last_activity becomes now.
SweepBroadcast ==
    /\ next_msg <= MaxMsgs
    /\ next_msg' = next_msg + 1
    /\ IF connections = <<>>
       THEN /\ mq' = enqueue(mq, next_msg, max_size).mq
            /\ UNCHANGED <<last_activity, last_traffic>>
       ELSE /\ last_activity' = [w \in WS |-> IF Registered(w) THEN now
                                              ELSE last_activity[w]]
            /\ last_traffic' = [w \in WS |-> IF Registered(w) THEN now
                                             ELSE last_traffic[w]]
            /\ UNCHANGED mq
    /\ cm_op' = Found("broadcast")
    /\ UNCHANGED <<connections, now>>

\* The client closes: websocket_endpoint calls disconnect(websocket).
SweepDisconnect(w) ==
    /\ Registered(w)
    /\ connections' = Remove(connections, w)
    /\ cm_op' = Found("disconnect")
    /\ UNCHANGED <<last_activity, last_traffic, now, mq, next_msg>>

\* time_since_activity > self.connection_timeout
is_stale(w, t) == t - last_activity[w] > connection_timeout

\* check_and_cleanup_stale_connections(): collects the stale websockets of
\* the registry and disconnects each one.  disconnect does not suspend, so
\* the sweep runs to completion.
Sweep ==
    /\ connections' = SelectSeq(connections, LAMBDA w : ~is_stale(w, now))
    /\ cm_op' = Found("sweep")
    /\ UNCHANGED <<last_activity, last_traffic, now, mq, next_msg>>

sweepFrame == <<max_size, pa, mq_op, handed, failed, delivered, ws_state, bc,
                ctask, received, bc_log, at_connect, breaker,
                failure_threshold, reset_timeout, cb_op, streak, last_fail_at,
                opened_at, reopened_at, gwVars, agVars, tool, admin, conc,
                backoff, memory, stepper, rl_op, act,
                connection_timeout>>

NextSweep ==
    \/ SweepTick /\ UNCHANGED sweepFrame
    \/ \E w \in WS : SweepConnect(w) /\ UNCHANGED sweepFrame
    \/ \E w \in WS, kind \in ClientMessages :
           ClientMessage(w, kind) /\ UNCHANGED sweepFrame
    \/ SweepBroadcast /\ UNCHANGED sweepFrame
    \/ \E w \in WS : SweepDisconnect(w) /\ UNCHANGED sweepFrame
    \/ Sweep /\ UNCHANGED sweepFrame

SpecSweep == InitSweep /\ [][NextSweep]_vars

\* ------------------------------------------------------------------------
\* SpecAdmin: the administrative operations on the agent (POST /agent/stop,
\* POST /agent/reset) between chats, steps, broadcasts and clients that
\* come and go.  Every websocket.send_json succeeds here.
\* ------------------------------------------------------------------------
InitAdmin ==
    /\ max_size \in 0..MaxQueueSize
    /\ MQHarnessInit
    /\ CMIdle
    /\ CBIdle
    /\ GWIdle
    /\ AgentIdle
    /\ AuxIdle

\* _stream_agent_response up to its loop: current_step = 0, is_running = True.
AdminChat ==
    /\ current_step' = 0
    /\ is_running' = TRUE
    /\ admin' = AdminNone
    /\ UNCHANGED <<shutdown_requested, connections, last_activity,
                   last_traffic, cm_op, mq, next_msg>>

\* One agent.step() of the running chat: current_step += 1.
AdminStep ==
    /\ is_running
    /\ current_step < MaxIterations
    /\ current_step' = current_step + 1
    /\ admin' = AdminNone
    /\ UNCHANGED <<is_running, shutdown_requested, connections, last_activity,
                   last_traffic, cm_op, mq, next_msg>>

\* reset_agent(): agent.reset() clears the memory and sets current_step = 0,
\* is_running = False, _shutdown_requested = False; nothing is broadcast.
reset_agent ==
    /\ current_step' = 0
    /\ is_running' = FALSE
    /\ shutdown_requested' = FALSE
    /\ admin' = [op |-> "reset", stopped |-> 0]
    /\ UNCHANGED <<connections, last_activity, last_traffic, cm_op, mq,
                   next_msg>>

\* stop_agent(): is_running = False, _shutdown_requested = True, then one
\* manager.broadcast of a "stopped" event: queued when no connection is
\* registered, else sent to every connection.
stop_agent ==
    /\ next_msg <= MaxMsgs
    /\ is_running' = FALSE
    /\ shutdown_requested' = TRUE
    /\ SweepBroadcast
    /\ admin' = [op |-> "stop",
                 stopped |-> IF connections # <<>>
                                \/ enqueue(mq, next_msg, max_size).ok
                             THEN 1 ELSE 0]
    /\ UNCHANGED current_step

adminFrame == <<max_size, pa, mq_op, handed, failed, delivered, ws_state, bc,
                ctask, received, bc_log, at_connect, cbVars, gwVars,
                max_iterations, loop_kind, run, th,
                steps_started, stop_requested, think_failed, chats_left,
                step_events, tool, conc, backoff, memory, stepper, rl_op,
                act, connection_timeout>>

NextAdmin ==
    \/ AdminChat /\ UNCHANGED adminFrame
    \/ AdminStep /\ UNCHANGED adminFrame
    \/ reset_agent /\ UNCHANGED adminFrame
    \/ stop_agent /\ UNCHANGED adminFrame
    \/ /\ SweepBroadcast
       /\ admin' = AdminNone
       /\ UNCHANGED <<current_step, is_running, shutdown_requested>>
       /\ UNCHANGED adminFrame
    \/ \E w \in WS :
           /\ SweepConnect(w)
           /\ admin' = AdminNone
           /\ UNCHANGED <<current_step, is_running, shutdown_requested>>
           /\ UNCHANGED adminFrame
    \/ \E w \in WS :
           /\ SweepDisconnect(w)
           /\ admin' = AdminNone
           /\ UNCHANGED <<current_step, is_running, shutdown_requested>>
           /\ UNCHANGED adminFrame

SpecAdmin == InitAdmin /\ [][NextAdmin]_vars

\* ------------------------------------------------------------------------
\* SpecConc: k threads started together on one RateLimiter (each calls
\* check_and_wait, then record_request) or on one CircuitBreaker (each
\* calls record_failure).  A thread can be preempted between any two
\* bytecodes, so taking the lock, reading a field and writing it are
\* separate steps.
\* ------------------------------------------------------------------------
InitConc ==
    /\ max_size = 0
    /\ MQHarnessInit
    /\ CMIdle
    /\ breaker = BreakerInit
    /\ failure_threshold \in 1..MaxThreshold
    /\ reset_timeout = MaxTimeout
    /\ now = 1
    /\ cb_op = [op |-> "init", pre |-> BreakerInit, at |-> 1,
                value |-> CLOSED, raised |-> FALSE]
    /\ streak = 0
    /\ last_fail_at = 0
    /\ opened_at = 0
    /\ reopened_at = 0
    /\ limiter = LimiterInit
    /\ rl_lock = 0
    /\ rpm_limit \in 0..MaxRpm
    /\ tpm_limit \in {0, MaxTokens}
    /\ provider = "openai"
    /\ retry_attempts = 1
    /\ total_tokens_used = 0
    /\ call = [c \in Callers |-> CallIdle]
    /\ calls_started = 0
    /\ backend_calls = 0
    /\ admitted = <<>>
    /\ AgentIdle
    /\ tool = ToolIdle
    /\ SweepIdle
    /\ admin = AdminNone
    /\ backoff = BackoffIdle
    /\ TranscriptIdle
    /\ rl_op = UsageIdle
    /\ act = ActIdle
    /\ \E job \in {"requests", "failures"}, k \in Workers :
           conc = [job |-> job, k |-> k, cb_lock |-> 0,
                   w |-> [t \in Workers |->
                             IF t <= k THEN [WorkerOff EXCEPT !.pc = "start"]
                             ELSE WorkerOff]]

\* A lock that anybody can take at any time.
lock_always_free(holder) == TRUE

\* threading.Lock: `with self._lock:` goes on only when nobody holds it.
lock_free(holder) == holder = 0

ConcTick ==
    /\ now < MaxTime
    /\ now' = now + 1
    /\ UNCHANGED <<limiter, rl_lock, breaker, conc>>

\* `with self._lock:` of check_and_wait and of record_request
LockLimiter(t) ==
    /\ conc.job = "requests"
    /\ conc.w[t].pc \in {"start", "checked"}
    /\ lock_free(rl_lock)
    /\ rl_lock' = t
    /\ conc' = [conc EXCEPT !.w[t].pc = IF @ = "start" THEN "cw_locked"
                                                       ELSE "rr_locked"]
    /\ UNCHANGED <<limiter, breaker, now>>

\* _cleanup_old_entries builds the two filtered lists ...
CleanupRead(t) ==
    /\ conc.w[t].pc = "cw_locked"
    /\ conc' = [conc EXCEPT !.w[t].pc = "cw_read",
                            !.w[t].seen_entries =
                                _cleanup_old_entries(limiter, now)]
    /\ UNCHANGED <<limiter, rl_lock, breaker, now>>

\* ... and assigns them; check_and_wait then makes its RPM and TPM checks
\* (estimated_tokens = 1) and returns, or sleeps with the lock held.
CleanupWrite(t) ==
    /\ conc.w[t].pc = "cw_read"
    /\ LET lim == conc.w[t].seen_entries
           rw == rpm_wait_time(lim, now, rpm_limit)
           tw == tpm_wait_time(lim, now, tpm_limit, 1)
       IN  /\ limiter' = lim
           /\ IF rw > 0
              THEN /\ conc' = [conc EXCEPT !.w[t].pc = "sleep_rpm",
                                           !.w[t].wake = now + rw]
                   /\ UNCHANGED rl_lock
              ELSE IF tw > 0
              THEN /\ conc' = [conc EXCEPT !.w[t].pc = "sleep_tpm",
                                           !.w[t].wake = now + tw]
                   /\ UNCHANGED rl_lock
              ELSE /\ conc' = [conc EXCEPT !.w[t].pc = "checked"]
                   /\ rl_lock' = 0
    /\ UNCHANGED <<breaker, now>>

\* time.sleep of the RPM branch is over: purge again, then the TPM branch.
WorkerWakeRpm(t) ==
    /\ conc.w[t].pc = "sleep_rpm"
    /\ now >= conc.w[t].wake
    /\ LET lim == _cleanup_old_entries(limiter, now)
           tw == tpm_wait_time(lim, now, tpm_limit, 1)
       IN  /\ limiter' = lim
           /\ IF tw > 0
              THEN /\ conc' = [conc EXCEPT !.w[t].pc = "sleep_tpm",
                                           !.w[t].wake = now + tw]
                   /\ UNCHANGED rl_lock
              ELSE /\ conc' = [conc EXCEPT !.w[t].pc = "checked"]
                   /\ rl_lock' = 0
    /\ UNCHANGED <<breaker, now>>

\* time.sleep of the TPM branch is over: purge, release the lock.
WorkerWakeTpm(t) ==
    /\ conc.w[t].pc = "sleep_tpm"
    /\ now >= conc.w[t].wake
    /\ limiter' = _cleanup_old_entries(limiter, now)
    /\ conc' = [conc EXCEPT !.w[t].pc = "checked"]
    /\ rl_lock' = 0
    /\ UNCHANGED <<breaker, now>>

\* record_request(tokens_used = 1) under the lock: the two appends.
WorkerRecordRequest(t) ==
    /\ conc.w[t].pc = "rr_locked"
    /\ limiter' = record_request(limiter, now, 1)
    /\ rl_lock' = 0
    /\ conc' = [conc EXCEPT !.w[t].pc = "done", !.w[t].recorded_at = now]
    /\ UNCHANGED <<breaker, now>>

\* `with self._lock:` of record_failure
LockBreaker(t) ==
    /\ conc.job = "failures"
    /\ conc.w[t].pc = "start"
    /\ lock_free(conc.cb_lock)
    /\ conc' = [conc EXCEPT !.cb_lock = t, !.w[t].pc = "rf_locked"]
    /\ UNCHANGED <<limiter, rl_lock, breaker, now>>

\* `self._failure_count += 1` loads the count ...
LoadCount(t) ==
    /\ conc.w[t].pc = "rf_locked"
    /\ conc' = [conc EXCEPT !.w[t].pc = "rf_loaded",
                            !.w[t].seen_count = breaker.failure_count]
    /\ UNCHANGED <<limiter, rl_lock, breaker, now>>

\* ... and stores it incremented; the rest of record_failure follows and
\* the lock is released.
StoreCount(t) ==
    /\ conc.w[t].pc = "rf_loaded"
    /\ breaker' = record_failure(
                      [breaker EXCEPT !.failure_count = conc.w[t].seen_count],
                      now, failure_threshold)
    /\ conc' = [conc EXCEPT !.cb_lock = 0, !.w[t].pc = "done",
                            !.w[t].recorded_at = now]
    /\ UNCHANGED <<limiter, rl_lock, now>>

concFrame == <<mqVars, cmVars, failure_threshold, reset_timeout, cb_op,
               streak, last_fail_at, opened_at, reopened_at, rpm_limit,
               tpm_limit, provider, retry_attempts, total_tokens_used, call,
               calls_started, backend_calls, admitted, agVars, tool,
               last_activity, connection_timeout, last_traffic, cm_op,
               admin, backoff, memory, stepper, rl_op, act>>

NextConc ==
    \/ ConcTick /\ UNCHANGED concFrame
    \/ \E t \in Workers : LockLimiter(t) /\ UNCHANGED concFrame
    \/ \E t \in Workers : CleanupRead(t) /\ UNCHANGED concFrame
    \/ \E t \in Workers : CleanupWrite(t) /\ UNCHANGED concFrame
    \/ \E t \in Workers : WorkerWakeRpm(t) /\ UNCHANGED concFrame
    \/ \E t \in Workers : WorkerWakeTpm(t) /\ UNCHANGED concFrame
    \/ \E t \in Workers : WorkerRecordRequest(t) /\ UNCHANGED concFrame
    \/ \E t \in Workers : LockBreaker(t) /\ UNCHANGED concFrame
    \/ \E t \in Workers : LoadCount(t) /\ UNCHANGED concFrame
    \/ \E t \in Workers : StoreCount(t) /\ UNCHANGED concFrame

SpecConc == InitConc /\ [][NextConc]_vars

\* ------------------------------------------------------------------------
\* SpecBackoff: _calculate_backoff(attempt) for attempt = 0, 1, 2, ... as
\* the retry loop calls it.  Waits are whole seconds; random.random() is
\* k / RandomSteps for k in 0..RandomSteps-1, so a returned value is kept in
\* units of 1 / BackoffScale seconds, in which the jitter wait * 0.2 * k /
\* RandomSteps is the integer wait * k.  Floating-point rounding is not
\* modelled.
\* ------------------------------------------------------------------------
BackoffScale == 5 * RandomSteps

InitBackoff ==
    /\ max_size = 0
    /\ MQHarnessInit
    /\ CMIdle
    /\ CBIdle
    /\ GWIdle
    /\ AgentIdle
    /\ tool = ToolIdle
    /\ SweepIdle
    /\ admin = AdminNone
    /\ conc = ConcIdle
    /\ TranscriptIdle
    /\ rl_op = UsageIdle
    /\ act = ActIdle
    /\ \E base \in 0..MaxBaseWait, cap \in 0..MaxCapWait :
           backoff = [BackoffIdle EXCEPT !.tool_retry_min_wait = base,
                                         !.tool_retry_max_wait = cap]

\* min(base_wait * (2 ** attempt), max_wait)
wait_time(attempt, base_wait, max_wait) ==
    LET exponential_wait == base_wait * (2 ^ attempt)
    IN  IF exponential_wait <= max_wait THEN exponential_wait ELSE max_wait

\* A random factor drawn from (0, 1] instead of [0, 1).
jitter_closed_above(wait, k) == wait * (k + 1)

\* wait_time * 0.2 * random.random(), in units of 1 / BackoffScale
jitter(wait, k) == wait * k

\* One _calculate_backoff(attempt) call, random.random() being
\* k / RandomSteps.
CalculateBackoff(k) ==
    /\ backoff.attempt < MaxBackoffAttempt
    /\ LET attempt == backoff.attempt + 1
           wait == wait_time(attempt, backoff.tool_retry_min_wait,
                             backoff.tool_retry_max_wait)
       IN  backoff' = [backoff EXCEPT
                          !.attempt = attempt,
                          !.previous_wait = IF attempt = 0 THEN wait
                                            ELSE backoff.wait_time,
                          !.wait_time = wait,
                          !.returned = wait * BackoffScale + jitter(wait, k)]

backoffFrame == <<mqVars, cmVars, cbVars, gwVars, agVars, tool,
                  last_activity, connection_timeout, last_traffic, cm_op,
                  admin, conc, memory, stepper, rl_op, act>>

NextBackoff ==
    \E k \in 0..(RandomSteps - 1) :
        CalculateBackoff(k) /\ UNCHANGED backoffFrame

SpecBackoff == InitBackoff /\ [][NextBackoff]_vars

\* ------------------------------------------------------------------------
\* SpecTranscript: agent.step() calls on the transcript.  A chat message
\* starts a streaming loop (a task of its own), a loop runs agent.step() in
\* an executor thread and waits for it, and the loop of services.py stops
\* waiting when the step timeout expires while the thread runs on.  A thread
\* can be preempted between any two statements.
\* ------------------------------------------------------------------------
InitTranscript ==
    /\ max_size = 0
    /\ MQHarnessInit
    /\ CMIdle
    /\ CBIdle
    /\ GWIdle
    /\ AgentIdle
    /\ AuxIdle

\* Memory.add: append, then keep the most recent max_history messages.
add(messages, message) ==
    LET appended == Append(messages, message)
    IN  IF Len(appended) > MaxHistory
        THEN SubSeq(appended, Len(appended) - MaxHistory + 1, Len(appended))
        ELSE appended

NoCallId == <<>>

Message(role, tool_calls, tool_call_id) ==
    [role |-> role, tool_calls |-> tool_calls, tool_call_id |-> tool_call_id]

\* The id of tool call i of backend response n
CallId(n, i) == <<n, i>>

\* websocket_endpoint, chat branch: create_task(_stream_agent_response),
\* which adds the user message before its loop.
ChatStarts(l) ==
    /\ stepper.loop[l] = "new"
    /\ l > 1 => stepper.loop[l - 1] # "new"
    /\ memory' = add(memory, Message("user", <<>>, NoCallId))
    /\ stepper' = [stepper EXCEPT !.loop[l] = "ready"]

\* loop.run_in_executor(None, agent.step): the loop waits for thread t.
DispatchStep(l, t) ==
    /\ stepper.loop[l] = "ready"
    /\ stepper.th[t].pc = "idle"
    /\ \A u \in StepThreads : u < t => stepper.th[u].pc # "idle"
    /\ stepper.steps < MaxSteps
    /\ stepper' = [stepper EXCEPT
                       !.loop[l] = "waiting",
                       !.steps = @ + 1,
                       !.th[t] = [StepThreadIdle EXCEPT
                                     !.pc = "think", !.loop = l,
                                     !.response = stepper.steps + 1]]
    /\ UNCHANGED memory

\* THINK: memory.get_messages_for_llm() is read and the backend answers
\* with k tool calls (k = 0: a final answer).
Think(t, k) ==
    /\ stepper.th[t].pc = "think"
    /\ stepper' = [stepper EXCEPT !.th[t].pc = "answered", !.th[t].k = k,
                                  !.th[t].read = memory]
    /\ UNCHANGED memory

\* The end of a step: the loop that still waits for it goes on.
StepReturns(st, t) ==
    [st EXCEPT !.th[t].pc = "idle",
               !.loop = [l \in 1..MaxRuns |->
                            IF l = st.th[t].loop /\ st.loop[l] = "waiting"
                            THEN "ready" ELSE st.loop[l]]]

\* memory.add_assistant_tool_calls(...) when the response has tool calls,
\* else memory.add_assistant_message(content) and the step returns.
AddAssistant(t) ==
    /\ stepper.th[t].pc = "answered"
    /\ LET n == stepper.th[t].response
           k == stepper.th[t].k
       IN  IF k > 0
           THEN /\ memory' = add(memory,
                                 Message("assistant",
                                         [i \in 1..k |-> CallId(n, i)],
                                         NoCallId))
                /\ stepper' = [stepper EXCEPT !.th[t].pc = "tools",
                                              !.th[t].i = 1]
           ELSE /\ memory' = add(memory, Message("assistant", <<>>, NoCallId))
                /\ stepper' = StepReturns(stepper, t)

\* _handle_tool_calls, one turn of its loop: the tool is unknown, or
\* _execute_tool_with_retry returns a result (success or failure), and
\* memory.add_tool_result(..., call_id=tool_call.id); after the last tool
\* call the step returns.
HandleToolCall(t) ==
    /\ stepper.th[t].pc = "tools"
    /\ memory' = add(memory,
                     Message("tool", <<>>,
                             CallId(stepper.th[t].response, stepper.th[t].i)))
    /\ stepper' = IF stepper.th[t].i < stepper.th[t].k
                  THEN [stepper EXCEPT !.th[t].i = @ + 1]
                  ELSE StepReturns(stepper, t)

\* asyncio.wait_for times out in _run_step_with_timeout: the loop stops
\* waiting and, after its retry sleep, is ready to call agent.step() again;
\* the executor thread is not stopped.
StepTimesOut(l) ==
    /\ stepper.loop[l] = "waiting"
    /\ stepper' = [stepper EXCEPT !.loop[l] = "ready"]
    /\ UNCHANGED memory

transcriptFrame == <<mqVars, cmVars, cbVars, gwVars, agVars, tool,
                     last_activity, connection_timeout, last_traffic, cm_op,
                     admin, conc, backoff, rl_op, act>>

NextTranscript ==
    \/ \E l \in 1..MaxRuns : ChatStarts(l) /\ UNCHANGED transcriptFrame
    \/ \E l \in 1..MaxRuns, t \in StepThreads :
           DispatchStep(l, t) /\ UNCHANGED transcriptFrame
    \/ \E t \in StepThreads, k \in 0..MaxRequested :
           Think(t, k) /\ UNCHANGED transcriptFrame
    \/ \E t \in StepThreads : AddAssistant(t) /\ UNCHANGED transcriptFrame
    \/ \E t \in StepThreads : HandleToolCall(t) /\ UNCHANGED transcriptFrame
    \/ \E l \in 1..MaxRuns : StepTimesOut(l) /\ UNCHANGED transcriptFrame

SpecTranscript == InitTranscript /\ [][NextTranscript]_vars

\* ------------------------------------------------------------------------
\* SpecTool: one _execute_tool_with_retry call, the tool answering each
\* tool.execute at will.  The waits between attempts are not negative, so
\* time.sleep does not raise.
\* ------------------------------------------------------------------------
InitTool ==
    /\ max_size = 0
    /\ MQHarnessInit
    /\ CMIdle
    /\ CBIdle
    /\ GWIdle
    /\ AgentIdle
    /\ SweepIdle
    /\ admin = AdminNone
    /\ conc = ConcIdle
    /\ backoff = BackoffIdle
    /\ TranscriptIdle
    /\ rl_op = UsageIdle
    /\ act = ActIdle
    /\ \E n \in 0..MaxToolRetries : tool = [ToolIdle EXCEPT !.max_retries = n]

\* ToolResult.fail(...) after the loop: reached only when range(max_retries)
\* is empty.
fallthrough_result ==
    [success |-> FALSE, error |-> "Unknown error", arguments |-> FALSE,
     by |-> "fallthrough"]

\* _execute_tool_with_retry is entered: max_retries is read, last_error is
\* None, and the for loop starts (or is skipped).
ExecuteToolStart ==
    /\ tool.pc = "idle"
    /\ tool' = IF tool.max_retries = 0
               THEN [tool EXCEPT !.pc = "returned",
                                 !.result = fallthrough_result]
               ELSE [tool EXCEPT !.pc = "loop"]

\* The text kept in last_error for a failed attempt.
error_text(o) ==
    IF o.kind = "fail" /\ o.error = "" THEN "Tool execution failed"
    ELSE o.error

\* A retry loop that catches no exception of the tool.
execute_attempt_lets_exception_out(t, o) ==
    LET t1 == [t EXCEPT !.calls = @ + 1, !.history = Append(@, o)]
    IN  IF o.kind = "ok"
        THEN [t1 EXCEPT !.pc = "returned",
                        !.result = [success |-> TRUE, error |-> "",
                                    arguments |-> FALSE, by |-> "tool"]]
        ELSE IF o.kind = "raise"
        THEN [t1 EXCEPT !.pc = "raised", !.last_error = error_text(o)]
        ELSE IF t.attempt < t.max_retries - 1
        THEN [t1 EXCEPT !.last_error = error_text(o), !.attempt = @ + 1]
        ELSE [t1 EXCEPT !.last_error = error_text(o),
                        !.pc = "returned",
                        !.result = [success |-> FALSE,
                                    error |-> error_text(o),
                                    arguments |-> TRUE, by |-> o.kind]]

\* One iteration of the for loop: tool.execute(**arguments) answers o.  A
\* result with success is returned; a result without success and an
\* exception both set last_error and, unless this was the last attempt,
\* sleep and continue; the last attempt returns ToolResult.fail with the
\* last error and the arguments.
execute_attempt(t, o) ==
    LET t1 == [t EXCEPT !.calls = @ + 1, !.history = Append(@, o)]
    IN  IF o.kind = "ok"
        THEN [t1 EXCEPT !.pc = "returned",
                        !.result = [success |-> TRUE, error |-> "",
                                    arguments |-> FALSE, by |-> "tool"]]
        ELSE IF t.attempt < t.max_retries - 1
        THEN [t1 EXCEPT !.last_error = error_text(o), !.attempt = @ + 1]
        ELSE [t1 EXCEPT !.last_error = error_text(o),
                        !.pc = "returned",
                        !.result = [success |-> FALSE,
                                    error |-> error_text(o),
                                    arguments |-> TRUE, by |-> o.kind]]

ExecuteToolAttempt(o) ==
    /\ tool.pc = "loop"
    /\ tool' = execute_attempt(tool, o)

toolFrame == <<mqVars, cmVars, cbVars, gwVars, agVars, last_activity,
              connection_timeout, last_traffic, cm_op, admin, conc,
              backoff, memory, stepper, rl_op, act>>

NextTool ==
    \/ ExecuteToolStart /\ UNCHANGED toolFrame
    \/ \E o \in ToolOutcomes : ExecuteToolAttempt(o) /\ UNCHANGED toolFrame

SpecTool == InitTool /\ [][NextTool]_vars

\* ------------------------------------------------------------------------
\* Claims about the queue (checked under SpecMQ)
\* ------------------------------------------------------------------------

\* C3: for max_size = N > 0 and a queue holding N messages, enqueue(m)
\* returns success, removes exactly the oldest entry, appends m at the tail,
\* keeps the size at N and increases total_dropped by exactly 1.
C3_EnqueueAtCapacityEvictsOldest ==
    (mq_op.op = "enqueue" /\ max_size > 0 /\ size(mq_op.pre) = max_size) =>
        /\ mq_op.ok
        /\ mq.queue = Append(Tail(mq_op.pre.queue), QueuedMessage(mq_op.msg))
        /\ size(mq) = max_size
        /\ mq.total_dropped = mq_op.pre.total_dropped + 1

\* C4: in process_all a message whose delivery failed is re-enqueued with
\* its retry count incremented, no message is handed to the deliver
\* function more than 3 times, and after its third failed delivery a
\* message is dropped instead of being re-enqueued.
C4_RetryCapOfThree ==
    /\ \A i \in 1..Len(mq.queue) :
           mq.queue[i].retry_count = failed[mq.queue[i].message]
    /\ \A m \in Msgs : handed[m] <= 3
    /\ \A m \in Msgs : failed[m] >= 3 => m \notin QueueMsgs(mq)

\* C5: messages that are neither evicted nor dropped leave the queue
\* (dequeue, or a successful process_all delivery) in the order in which
\* they were first enqueued; message ids grow in that order.
C5_FifoDeliveryOrder ==
    \A i, j \in 1..Len(delivered) : i < j => delivered[i] < delivered[j]


\* ------------------------------------------------------------------------
\* Claims about the connection manager (checked under SpecCM)
\* ------------------------------------------------------------------------

\* C1: every event passed to broadcast has, when broadcast returns, been
\* sent successfully to at least one connection or been enqueued in the
\* message queue, whatever connect or disconnect ran while the broadcast
\* was suspended in a send.
C1_BroadcastSendsOrQueues ==
    \A e \in Msgs : bc_log[e].done => bc_log[e].sent \/ bc_log[e].queued

\* C2: a client that connected while no connection was registered, and that
\* is still open when connect() has returned, has received every message
\* that was queued when it connected, and the events it received (replayed
\* and broadcast) are in the original event order.
C2_ReplayCompleteAndOrdered ==
    \A w \in WS :
        (ctask[w].pc # "idle" /\ at_connect[w].connections = <<>>) =>
            /\ \A i, j \in 1..Len(received[w]) :
                   i < j => received[w][i] < received[w][j]
            /\ (ctask[w].pc = "done" /\ ws_state[w] = "open") =>
                   \A k \in 1..Len(at_connect[w].queue) :
                       \E i \in 1..Len(received[w]) :
                           received[w][i] = at_connect[w].queue[k].message


\* ------------------------------------------------------------------------
\* Claims about the circuit breaker (checked under SpecCB)
\* ------------------------------------------------------------------------
Reads == {"state", "check"}

\* C6: with failure_threshold T >= 1, after record_failure calls with no
\* record_success or reset in between the stored state is CLOSED while
\* fewer than T failures were recorded and OPEN from the T-th on; a state
\* read made before reset_timeout has elapsed since the last of them sees
\* the same, and every check() made before then raises CircuitOpenError.
C6_OpensAtThreshold ==
    /\ cb_op.op = "record_failure" =>
           breaker.state = IF streak >= failure_threshold THEN OPEN
                           ELSE CLOSED
    /\ (cb_op.op \in Reads /\ streak < failure_threshold) =>
           cb_op.value = CLOSED /\ ~cb_op.raised
    /\ (cb_op.op \in Reads /\ streak >= failure_threshold
            /\ cb_op.at - last_fail_at < reset_timeout) =>
           cb_op.value = OPEN /\ (cb_op.op = "check" => cb_op.raised)

C6_Witness ==
    /\ cb_op.op = "check"
    /\ cb_op.raised
    /\ failure_threshold = 2
    /\ streak = 2

\* C7 as claimed: once the breaker is OPEN, a check() or state read made at
\* least reset_timeout after the failure that opened it observes HALF_OPEN
\* and lets the call through, whatever further failures were recorded while
\* it was OPEN.
C7_HalfOpenAfterOpeningFailure ==
    (cb_op.op \in Reads /\ cb_op.pre.state = OPEN
         /\ cb_op.at - opened_at >= reset_timeout) =>
        cb_op.value = HALF_OPEN /\ ~cb_op.raised

\* C7 as amended: once the breaker is OPEN, a check() or state read made at
\* least reset_timeout after the most recent record_failure() observes
\* HALF_OPEN and lets the call through; the stored state changes only in an
\* operation of the breaker (never with time alone), and it leaves OPEN
\* only in such a read, in record_success() or in reset().
C7_HalfOpenAfterLastFailure ==
    /\ (cb_op.op \in Reads /\ cb_op.pre.state = OPEN
            /\ cb_op.at - last_fail_at >= reset_timeout) =>
           cb_op.value = HALF_OPEN /\ ~cb_op.raised
    /\ breaker.state = cb_op.value
    /\ (cb_op.pre.state = OPEN /\ cb_op.value # OPEN) =>
           \/ /\ cb_op.op \in Reads
              /\ cb_op.value = HALF_OPEN
              /\ cb_op.at - last_fail_at >= reset_timeout
           \/ cb_op.op \in {"record_success", "reset"}

C7_Witness ==
    /\ cb_op.op = "check"
    /\ cb_op.pre.state = OPEN
    /\ cb_op.value = HALF_OPEN
    /\ reset_timeout > 0
    /\ last_fail_at > opened_at
    /\ cb_op.at - last_fail_at = reset_timeout

\* C8: a record_failure() made while the breaker is HALF_OPEN puts it back
\* to OPEN, and check() raises again as long as less than reset_timeout has
\* elapsed since that failure.
C8_FailureInHalfOpenReopens ==
    /\ (cb_op.op = "record_failure" /\ cb_op.pre.state = HALF_OPEN) =>
           breaker.state = OPEN
    /\ (cb_op.op = "check" /\ reopened_at # 0
            /\ cb_op.at - reopened_at < reset_timeout) =>
           cb_op.raised

C8_Witness ==
    /\ cb_op.op = "check"
    /\ cb_op.raised
    /\ reopened_at # 0
    /\ failure_threshold = 2
    /\ cb_op.at > reopened_at

\* C9: record_success() called in any state leaves the breaker CLOSED with
\* failure count 0, and a check() that follows it, at whatever time, does
\* not raise.
C9_SuccessCloses ==
    cb_op.op = "record_success" =>
        /\ breaker.state = CLOSED
        /\ breaker.failure_count = 0
        /\ \A t \in now..MaxTime : ~check_raises(breaker, t, reset_timeout)

C9_Witness ==
    /\ cb_op.op = "record_success"
    /\ cb_op.pre.state = HALF_OPEN
    /\ cb_op.pre.failure_count = 2


\* ------------------------------------------------------------------------
\* Claims about the gateway (checked under SpecGW)
\* ------------------------------------------------------------------------

C13_NonRetriablePropagatesAtOnce ==
    [][\A c \in Callers :
        (call[c].pc = "calling" /\ call'[c].error # "none") =>
            /\ backend_calls' = backend_calls + 1
            /\ IF is_retriable(provider, call'[c].error)
               THEN call'[c].pc \in {"backoff", "exhausted"}
               ELSE /\ call'[c].pc = "done"
                    /\ call'[c].result = "BackendException"]_vars

C13_Witness ==
    \E c \in Callers :
        /\ call[c].pc = "done"
        /\ call[c].result = "BackendException"
        /\ call[c].error = "other"
        /\ provider = "openai"
        /\ retry_attempts = MaxAttempts
        /\ calls_started = 1
        /\ backend_calls = 1

\* C14: every backend call the gateway completes, whether it succeeds or
\* fails, is recorded in the rate limiter with record_request: a call that
\* made a backend attempt has applied record_request by the time it returns
\* or raises.  Violated: the failure paths never call record_request, and a
\* success whose response carries no usage skips it.
C14_EveryCompletedCallRecorded ==
    [][\A c \in Callers :
        (/\ call[c].pc \in {"calling", "success", "exhausted"}
         /\ call'[c].pc = "done") => call[c].recorded]_vars


\* ------------------------------------------------------------------------
\* Claims about the rate limiter (checked under SpecRL)
\* ------------------------------------------------------------------------

\* C15: for a RateLimiter with rpm_limit = N > 0 (and no token limit), of
\* N+1 check_and_wait calls issued within a window shorter than 60 seconds
\* the first N return without waiting, and the (N+1)th does not return until
\* the oldest of them is at least 60 seconds old: a check_and_wait that
\* returns does so at least one window after the N-th last return before it.
\* Violated: check_and_wait counts only what record_request has recorded.
C15_RpmBlocksCallBeyondLimit ==
    [][\A c \in Callers :
        (rpm_limit > 0 /\ tpm_limit = 0) =>
            /\ (/\ call[c].pc = "rate_limit"
                /\ call'[c].pc # "rate_limit"
                /\ Len(admitted) < rpm_limit) => call'[c].pc = "calling"
            /\ (/\ call[c].pc # "calling"
                /\ call'[c].pc = "calling"
                /\ Len(admitted) >= rpm_limit) =>
                   now - admitted[Len(admitted) - rpm_limit + 1] >= Window
       ]_vars

\* ------------------------------------------------------------------------
\* Claims about the agent loops (checked under SpecAgent)
\* ------------------------------------------------------------------------

\* C12: with an attempt limit of 3 or more, a step that completes after the
\* backend call of its THINK failed twice with a transient error and then
\* succeeded is the only step() executed for that THINK (no step-level retry
\* preceded it), and the breaker's failure count is 0.
C12_RetriedThinkIsOneStep ==
    \A r \in Runs :
        (/\ retry_attempts >= 3
         /\ run[r].pc = "wait"
         /\ th[run[r].on].pc = "finished"
         /\ run[r].fails = 2) =>
            /\ run[r].retry_count = 0
            /\ breaker.failure_count = 0

\* C16: once a THINK of a run has failed with CircuitOpenError, or with
\* LLMError after the gateway's own retries, the run does not invoke step()
\* again: its count of dispatched steps stays as it is.
C16_FailedThinkEndsRun ==
    [][\A r \in Runs :
           think_failed[r] => steps_started'[r] = steps_started[r]]_vars

\* C17: once a stop was requested while a run was active, the run begins no
\* further step: its count of dispatched steps stays as it is.
C17_NoStepAfterStop ==
    [][\A r \in Runs :
           stop_requested[r] => steps_started'[r] = steps_started[r]]_vars

\* C18: a run executes step() at most max_iterations times.
C18_StepsWithinMaxIterations ==
    \A r \in Runs : steps_started[r] <= max_iterations

\* C19: the step_number values of the step events a run broadcasts are
\* strictly increasing.
C19_StepNumbersIncrease ==
    \A r \in Runs :
        \A i \in 1..(Len(step_events[r]) - 1) :
            step_events[r][i] < step_events[r][i + 1]

\* C20: at any time at most one agent.step() of a run is executing.
C20_OneStepExecuting ==
    \A r \in Runs :
        Cardinality({c \in Callers : /\ th[c].run = r
                                     /\ th[c].pc \in {"think", "act"}}) <= 1

C23_QueuedBroadcastAddsOne ==
    [][(connections = <<>> /\ next_msg' = next_msg + 1) =>
           size(mq') = size(mq) + 1]_vars

\* C23, amended: broadcast(event) called while no connection is registered
\* increases queue.size() by exactly 1 when the queue is unbounded or below
\* its capacity; at capacity the size does not grow.
C23_QueuedBroadcastAddsOneBelowCapacity ==
    [][(connections = <<>> /\ next_msg' = next_msg + 1) =>
           IF max_size = 0 \/ size(mq) < max_size
           THEN size(mq') = size(mq) + 1
           ELSE size(mq') <= size(mq)]_vars

\* An event broadcast while no connection was registered is in a bounded
\* queue together with an earlier one.
C23_Witness ==
    /\ max_size > 0
    /\ connections = <<>>
    /\ size(mq) = 2
    /\ \E m \in Msgs : bc_log[m].done /\ bc_log[m].queued /\ ~bc_log[m].sent

\* ------------------------------------------------------------------------
\* More claims about the circuit breaker (checked under SpecCB)
\* ------------------------------------------------------------------------

\* C26 as stated: an operation other than record_success that finds a
\* failure count above 0 does not leave it at 0.
C26_CountClearedOnlyBySuccess ==
    (cb_op.op \notin {"init", "record_success"}
         /\ cb_op.pre.failure_count > 0)
        => breaker.failure_count # 0

\* C26 amended: an operation other than record_success and reset that finds
\* a failure count above 0 does not leave it at 0.
C26_CountClearedOnlyBySuccessOrReset ==
    (cb_op.op \notin {"init", "record_success", "reset"}
         /\ cb_op.pre.failure_count > 0)
        => breaker.failure_count # 0

\* A failure was recorded on a breaker that already counted failures and
\* that failure opened the circuit.
C26_Witness ==
    /\ cb_op.op = "record_failure"
    /\ cb_op.pre.failure_count > 0
    /\ cb_op.pre.state = CLOSED
    /\ breaker.state = OPEN

\* ------------------------------------------------------------------------
\* Claims about threads on the shared state (checked under SpecConc)
\* ------------------------------------------------------------------------
AllDone == \A t \in 1..conc.k : conc.w[t].pc = "done"

\* get_current_usage()["requests_in_window"] at the present time
requests_in_window ==
    Len(_cleanup_old_entries(limiter, now).request_timestamps)

\* C27 as stated: when the last of the k threads has finished, k requests
\* are in the window, respectively the failure count is k and the breaker
\* is OPEN if k reached the threshold.
C27_NoLostUpdate ==
    (AllDone /\ \E t \in 1..conc.k : conc.w[t].recorded_at = now) =>
        /\ conc.job = "requests" => requests_in_window = conc.k
        /\ conc.job = "failures" =>
               /\ breaker.failure_count = conc.k
               /\ conc.k >= failure_threshold => breaker.state = OPEN

\* C27 amended: the same, the requests being counted when all k of them
\* were recorded less than a window ago.
C27_NoLostUpdateWithinWindow ==
    AllDone =>
        /\ (/\ conc.job = "requests"
            /\ \A t \in 1..conc.k : now - conc.w[t].recorded_at < Window)
               => requests_in_window = conc.k
        /\ conc.job = "failures" =>
               /\ breaker.failure_count = conc.k
               /\ conc.k >= failure_threshold => breaker.state = OPEN

\* Three threads have recorded their requests within one window, not all
\* at the same time.
C27_Witness ==
    /\ conc.job = "requests"
    /\ conc.k = MaxWorkers
    /\ AllDone
    /\ \A t \in 1..conc.k : now - conc.w[t].recorded_at < Window
    /\ \E t, u \in 1..conc.k : conc.w[t].recorded_at # conc.w[u].recorded_at

\* ------------------------------------------------------------------------
\* Claims about the backoff (checked under SpecBackoff)
\* ------------------------------------------------------------------------

\* C28 as stated: the base wait of a call is not below that of the call for
\* the attempt before and not above the cap, and the value returned is the
\* base wait plus a jitter j with 0 <= j < 0.2 * base wait.
C28_BackoffBounds ==
    backoff.attempt >= 0 =>
        LET j == backoff.returned - backoff.wait_time * BackoffScale
        IN  /\ backoff.previous_wait <= backoff.wait_time
            /\ backoff.wait_time <= backoff.tool_retry_max_wait
            /\ 0 <= j
            /\ 5 * j < backoff.wait_time * BackoffScale

\* C28 amended: as stated when the base wait is positive; when it is 0 the
\* jitter is 0.
C28_BackoffBoundsPositiveWait ==
    backoff.attempt >= 0 =>
        LET j == backoff.returned - backoff.wait_time * BackoffScale
        IN  /\ backoff.previous_wait <= backoff.wait_time
            /\ backoff.wait_time <= backoff.tool_retry_max_wait
            /\ 0 <= j
            /\ backoff.wait_time > 0 => 5 * j < backoff.wait_time * BackoffScale
            /\ backoff.wait_time = 0 => j = 0

\* A later attempt whose exponential wait was cut to the cap got the
\* largest jitter.
C28_Witness ==
    /\ backoff.attempt > 0
    /\ backoff.wait_time = backoff.tool_retry_max_wait
    /\ backoff.previous_wait < backoff.wait_time
    /\ backoff.returned =
           backoff.wait_time * BackoffScale
               + backoff.wait_time * (RandomSteps - 1)

\* ------------------------------------------------------------------------
\* Claims about the transcript (checked under SpecTranscript)
\* ------------------------------------------------------------------------

\* C29: in every transcript a THINK has read, an assistant message that
\* requests k tool calls is followed by exactly k tool-result messages,
\* which carry the ids of the tool calls in request order.
C29_ToolResultsFollowTheirCall ==
    \A t \in StepThreads :
        LET msgs == stepper.th[t].read
        IN  \A p \in 1..Len(msgs) :
                msgs[p].tool_calls # <<>> =>
                    LET k == Len(msgs[p].tool_calls)
                    IN  /\ p + k <= Len(msgs)
                        /\ \A i \in 1..k :
                               /\ msgs[p + i].role = "tool"
                               /\ msgs[p + i].tool_call_id
                                      = msgs[p].tool_calls[i]
                        /\ p + k + 1 <= Len(msgs)
                               => msgs[p + k + 1].role # "tool"

\* ------------------------------------------------------------------------
\* Claims about the limiter's purge (checked under SpecUsage)
\* ------------------------------------------------------------------------
\* A step in which a cleanup pass has run: a check_and_wait has gone past
\* its first purge or has woken from a sleep, or get_current_usage has run.
CleanupPassed ==
    \/ \E c \in Callers :
           /\ call[c].pc \in {"rate_limit", "sleep_rpm", "sleep_tpm"}
           /\ call'[c].pc # call[c].pc
    \/ rl_op'.reads # rl_op.reads

Occurrences(seq, x) == Cardinality({i \in 1..Len(seq) : seq[i] = x})

\* C30: after a step in which a cleanup pass has run at time now, no request
\* and no token entry is dated now - Window or earlier, and every entry the
\* pass found that is dated later is there as often as before.
C30_CleanupKeepsExactlyTheWindow ==
    [][CleanupPassed =>
          /\ \A i \in 1..Len(limiter'.request_timestamps) :
                 limiter'.request_timestamps[i] > now - Window
          /\ \A i \in 1..Len(limiter'.token_usage) :
                 limiter'.token_usage[i][1] > now - Window
          /\ \A i \in 1..Len(limiter.request_timestamps) :
                 LET x == limiter.request_timestamps[i]
                 IN  x > now - Window =>
                         Occurrences(limiter'.request_timestamps, x)
                             = Occurrences(limiter.request_timestamps, x)
          /\ \A i \in 1..Len(limiter.token_usage) :
                 LET e == limiter.token_usage[i]
                 IN  e[1] > now - Window =>
                         Occurrences(limiter'.token_usage, e)
                             = Occurrences(limiter.token_usage, e)]_vars

\* A usage read has purged one request and its tokens and kept another:
\* the first was exactly one window old.
C30_Witness ==
    /\ rl_op.reads > 0
    /\ rl_op.at = now
    /\ Len(rl_op.pre.request_timestamps) = 2
    /\ rl_op.pre.request_timestamps[1] = now - Window
    /\ rl_op.pre.token_usage # <<>>
    /\ rl_op.requests_in_window = 1
    /\ Len(limiter.request_timestamps) = 1

\* ------------------------------------------------------------------------
\* Claims about the stale-connection sweep (checked under SpecSweep)
\* ------------------------------------------------------------------------

\* C24: right after a sweep, the registry holds, in their order, exactly the
\* connections the sweep found registered whose last activity is not older
\* than connection_timeout, the queue is as the sweep found it, and no
\* connection that received a broadcast, sent a message or answered a ping
\* within the last connection_timeout has been evicted.
C24_SweepEvictsOnlyTheIdle ==
    cm_op.op = "sweep" =>
        /\ connections =
               SelectSeq(cm_op.connections,
                         LAMBDA w : now - cm_op.last_activity[w]
                                        <= connection_timeout)
        /\ mq = cm_op.mq
        /\ \A i \in 1..Len(cm_op.connections) :
               now - last_traffic[cm_op.connections[i]] <= connection_timeout
                   => Registered(cm_op.connections[i])

\* ------------------------------------------------------------------------
\* Claims about the administrative operations (checked under SpecAdmin)
\* ------------------------------------------------------------------------

\* C25: right after an administrative stop or reset, the shutdown flag is
\* set, is_running is false, and the operation has had exactly one stopped
\* event sent to the clients or queued.
C25_StopAndResetAnnounceStopped ==
    admin.op \in {"stop", "reset"} =>
        /\ shutdown_requested
        /\ ~is_running
        /\ admin.stopped = 1

\* ------------------------------------------------------------------------
\* Claims about tool execution (checked under SpecTool)
\* ------------------------------------------------------------------------

C31_SizeWithinCapacity ==
    /\ max_size > 0 => size(mq) <= max_size
    /\ max_size = 0 =>
           /\ mq.total_dropped = 0
           /\ mq_op.op = "enqueue" =>
                  /\ mq_op.ok
                  /\ mq.queue = Append(mq_op.pre.queue,
                                       QueuedMessage(mq_op.msg))

\* An enqueue has found the largest bounded queue full.
C31_Witness ==
    /\ max_size = MaxQueueSize
    /\ mq_op.op = "enqueue"
    /\ size(mq_op.pre) = max_size
    /\ ~mq_op.ok
    /\ size(mq) < max_size

\* C35: no queued message disappears uncounted: every message counted as
\* enqueued is still queued or has been counted as dequeued or dropped.
C35_NoMessageLostUncounted ==
    mq.total_enqueued <= size(mq) + mq.total_dequeued + mq.total_dropped

\* ------------------------------------------------------------------------
\* More claims about the rate limiter (checked under SpecRL)
\* ------------------------------------------------------------------------

\* C32: with rpm_limit > 0, of the calls check_and_wait has admitted to the
\* backend no more than rpm_limit fall within one window: each admission has
\* fewer than rpm_limit admissions in the window that ends with it.
C32_AdmissionsWithinRpm ==
    rpm_limit > 0 =>
        \A i \in 1..Len(admitted) :
            Cardinality({j \in 1..i : admitted[i] - admitted[j] < Window})
                <= rpm_limit

\* ------------------------------------------------------------------------
\* SpecReplay: the connection manager with a fair scheduler, for the
\* termination of connect().  The event loop resumes every task whose
\* awaited send has completed, so the replay of each connect() is weakly
\* fair; clients and broadcasts are under no obligation.  The statistics of
\* the queue are never read by enqueue, dequeue or process_all: they are
\* followed up to MaxCount and stay there, which keeps the states of a
\* replay that goes on without end finite.  An iteration of process_all is
\* two steps here, the handling of the send's outcome and the loop test
\* with the dequeue (dequeue awaits asyncio.wait_for).  The bookkeeping of
\* handoffs (handed) is not part of this specification.
\* ------------------------------------------------------------------------
MaxCount == 6         \* largest value of a queue statistic followed

UpTo(n, cap) == IF n > cap THEN cap ELSE n

Counted(s) == [s EXCEPT !.total_enqueued = UpTo(@, MaxCount),
                        !.total_dequeued = UpTo(@, MaxCount)]

\* connect(websocket) up to the first send of its replay.
ReplayConnect(w) ==
    /\ ws_state[w] = "new"
    /\ ws_state' = [ws_state EXCEPT ![w] = "open"]
    /\ connections' = Append(connections, w)
    /\ at_connect' = [at_connect EXCEPT ![w] =
           [connections |-> connections, queue |-> mq.queue]]
    /\ LET r == process_all_next(mq)
       IN  /\ mq' = Counted(r.mq)
           /\ ctask' = [ctask EXCEPT ![w] =
                  IF r.message = NoMsg
                  THEN [pc |-> "done", msg |-> NoMsg, ok |-> TRUE]
                  ELSE [pc |-> "sending", msg |-> r.message, ok |-> TRUE]]
           /\ received' = Deliver(received, w, r.message, r.message # NoMsg)
    /\ UNCHANGED <<next_msg, bc, bc_log, handed>>

\* The replay resumes from a send: a failed send re-enqueues the message.
ReplayResume(w) ==
    /\ ctask[w].pc = "sending"
    /\ mq' = Counted(process_all_after_send(mq, ctask[w].msg, ctask[w].ok,
                                            max_size))
    /\ ctask' = [ctask EXCEPT ![w] =
           [pc |-> "dequeue", msg |-> NoMsg, ok |-> TRUE]]
    /\ UNCHANGED <<next_msg, connections, ws_state, bc, bc_log, at_connect,
                   handed, received>>

\* The loop tests the queue again: it dequeues and sends, or connect()
\* returns.
ReplayDequeue(w) ==
    /\ ctask[w].pc = "dequeue"
    /\ LET r == process_all_next(mq)
           ok == send_json_ok(w)
       IN  /\ mq' = Counted(r.mq)
           /\ ctask' = [ctask EXCEPT ![w] =
                  IF r.message = NoMsg
                  THEN [pc |-> "done", msg |-> NoMsg, ok |-> TRUE]
                  ELSE [pc |-> "sending", msg |-> r.message, ok |-> ok]]
           /\ received' = Deliver(received, w, r.message,
                                  r.message # NoMsg /\ ok)
    /\ UNCHANGED <<next_msg, connections, ws_state, bc, bc_log, at_connect,
                   handed>>

NextReplay ==
    \/ BroadcastStart /\ UNCHANGED <<cmFrame, handed>>
    \/ BroadcastSendNext /\ UNCHANGED <<cmFrame, handed>>
    \/ BroadcastFinish /\ UNCHANGED <<cmFrame, handed>>
    \/ \E w \in WS : ReplayConnect(w) /\ UNCHANGED cmFrame
    \/ \E w \in WS : ReplayResume(w) /\ UNCHANGED cmFrame
    \/ \E w \in WS : ReplayDequeue(w) /\ UNCHANGED cmFrame
    \/ \E w \in WS : ClientClose(w) /\ UNCHANGED <<cmFrame, handed>>
    \/ \E w \in WS : Disconnect(w) /\ UNCHANGED <<cmFrame, handed>>

ReplayFairness ==
    \A w \in WS : /\ WF_vars(ReplayResume(w) /\ UNCHANGED cmFrame)
                  /\ WF_vars(ReplayDequeue(w) /\ UNCHANGED cmFrame)

SpecReplay == InitCM /\ [][NextReplay]_vars /\ ReplayFairness

\* C33: connect() returns: a replay that is waiting for a send is followed
\* by the return of its connect(), whatever the queue holds and also when
\* every send to the new websocket fails.
C33_ConnectReturns ==
    \A w \in WS : (ctask[w].pc = "sending") ~> (ctask[w].pc = "done")

\* ------------------------------------------------------------------------
\* More claims about the streaming loops (checked under SpecAgent)
\* ------------------------------------------------------------------------

\* The terminal events that concern run r: the complete event of its respond
\* step, its events of type error, and the stopped event of a stop requested
\* while it was active.
terminal_events(r) ==
    (IF run[r].outcome = "complete" THEN 1 ELSE 0)
        + run[r].errors
        + (IF stop_requested[r] THEN 1 ELSE 0)

\* C34: when a streaming run ends, for whatever reason, exactly one terminal
\* event (complete, error or stopped) has been broadcast for it and
\* agent.is_running is false.
C34_EndedRunAnnouncedAndStopped ==
    [][\A r \in Runs :
           (loop_kind # "run" /\ run[r].pc # "ended" /\ run'[r].pc = "ended")
               => /\ terminal_events(r)' = 1
                  /\ ~is_running']_vars

\* C38: with tpm_limit > 0, when check_and_wait(e) returns, the tokens
\* recorded within the window that ends now, plus e, do not exceed
\* tpm_limit.
C38_TokensWithinTpmOnReturn ==
    [][\A c \in Callers :
        (tpm_limit > 0 /\ call[c].pc # "calling" /\ call'[c].pc = "calling")
            => SumTokens(_cleanup_old_entries(limiter', now').token_usage)
                   + call[c].est <= tpm_limit]_vars

\* The positions of a caller that sleeps inside check_and_wait.
Waiting == {"sleep_rpm", "sleep_tpm"}

\* C40 (checked under SpecUsage): a caller that waits inside check_and_wait
\* holds the limiter lock for the whole wait; while it waits no other
\* caller's check_and_wait, record_request or get_current_usage completes,
\* and nobody else modifies the recorded window.
C40_WaiterHoldsTheLock ==
    [][\A w \in Callers :
        /\ call[w].pc \in Waiting => rl_lock = w
        /\ (call[w].pc \in Waiting /\ call'[w] = call[w]) =>
               /\ limiter' = limiter
               /\ rl_op' = rl_op
               /\ \A d \in Callers \ {w} :
                      call[d].pc = "rate_limit" => call'[d] = call[d]]_vars

\* A caller is in the middle of its wait, time has passed since it began,
\* and the other caller's backend call is over: its record_request has to
\* wait for the lock.
C40_Witness ==
    \E w \in Callers :
        \E d \in Callers \ {w} :
            /\ call[w].pc \in Waiting
            /\ call[w].wake - now = 1
            /\ rl_lock = w
            /\ call[d].pc = "calling"
            /\ limiter.request_timestamps # <<>>

\* ------------------------------------------------------------------------
\* More claims about the breaker (checked under SpecCB)
\* ------------------------------------------------------------------------

\* C36: for failure_threshold >= 1 the stored state is CLOSED exactly when
\* failure_count is below the threshold, and OPEN or HALF_OPEN exactly when
\* it has reached it.
C36_StateMatchesCount ==
    failure_threshold >= 1 =>
        /\ breaker.state = CLOSED <=>
               breaker.failure_count < failure_threshold
        /\ breaker.state \in {OPEN, HALF_OPEN} <=>
               breaker.failure_count >= failure_threshold

\* A breaker with the largest threshold is HALF_OPEN for the second time:
\* it has failed again after it opened.
C36_Witness ==
    /\ failure_threshold = MaxThreshold
    /\ breaker.state = HALF_OPEN
    /\ breaker.failure_count > failure_threshold

\* ------------------------------------------------------------------------
\* More claims about the gateway (checked under SpecGW)
\* ------------------------------------------------------------------------

\* C37: when a gateway call fails with an error that is not retriable, the
\* failure leaves the breaker as it was: no failure and no success is
\* recorded, failure_count and the stored state are unchanged (a HALF_OPEN
\* breaker stays HALF_OPEN).
C37_NonRetriableLeavesBreaker ==
    [][\A c \in Callers :
        (/\ call[c].pc = "calling"
         /\ call'[c].error # "none"
         /\ ~is_retriable(provider, call'[c].error))
            => /\ call'[c].pc = "done"
               /\ breaker' = breaker]_vars

\* A call has failed with a non-retriable error while the breaker was
\* HALF_OPEN, and the breaker still is.
C37_Witness ==
    \E c \in Callers :
        /\ call[c].pc = "done"
        /\ call[c].result = "BackendException"
        /\ ~is_retriable(provider, call[c].error)
        /\ breaker.state = HALF_OPEN
        /\ breaker.failure_count >= failure_threshold

\* ------------------------------------------------------------------------
\* SpecAct: the act step.  The backend's response requests one or more tool
\* calls; _handle_tool_calls executes them in order, each with its own
\* outcome, and returns one AgentStep; the streaming loop broadcasts the
\* step event built from it.  What the tools do, the retries of a tool and
\* the transcript are SpecTool's and SpecTranscript's matter.
\* ------------------------------------------------------------------------
MaxActCalls == 3      \* most tool calls requested by the response

\* Agent.tools: the names of the registered tools.
tools == {"file_ops", "run_python"}

\* The names a response can ask for; the backend may name a tool nobody
\* registered.
RequestedNames == tools \cup {"no_such_tool"}

InitAct ==
    /\ max_size = 0
    /\ MQHarnessInit
    /\ CMIdle
    /\ CBIdle
    /\ GWIdle
    /\ AgentIdle
    /\ AuxIdle

\* chat_with_tools returned a response with tool calls: step() calls
\* _handle_tool_calls(response); `result = None`.
ActResponse(calls) ==
    /\ act.pc \in {"idle", "broadcast"}
    /\ act' = [ActIdle EXCEPT !.pc = "tools", !.tool_calls = calls]

\* The AgentStep built after the loop: the first tool call, the last
\* result.
act_step(calls, result) ==
    [tool_call |-> calls[1], tool_result |-> result]

\* One iteration of `for tool_call in response.tool_calls`: an unknown tool
\* fails, a registered tool succeeds or fails in _execute_tool_with_retry;
\* after the last iteration the step is returned.
ExecuteToolCall(success) ==
    /\ act.pc = "tools"
    /\ LET i == Len(act.outcomes) + 1
           tool_call == act.tool_calls[i]
       IN  /\ tool_call \notin tools => ~success
           /\ act' = [act EXCEPT
                  !.outcomes = Append(@, success),
                  !.result = success,
                  !.pc = IF i = Len(act.tool_calls) THEN "returned" ELSE @,
                  !.step = IF i = Len(act.tool_calls)
                           THEN act_step(act.tool_calls, success) ELSE @]

\* The streaming loop broadcasts the step: tool_name is the name of
\* step.tool_call, tool_success is step.tool_result.success.
BroadcastStep ==
    /\ act.pc = "returned"
    /\ act' = [act EXCEPT !.pc = "broadcast",
                          !.event = [tool_name |-> act.step.tool_call,
                                     tool_success |-> act.step.tool_result]]

actFrame == <<mqVars, cmVars, cbVars, gwVars, agVars, tool, last_activity,
             connection_timeout, last_traffic, cm_op, admin, conc, backoff,
             memory, stepper, rl_op>>

CallLists == UNION {[1..k -> RequestedNames] : k \in 1..MaxActCalls}

NextAct ==
    \/ \E calls \in CallLists : ActResponse(calls) /\ UNCHANGED actFrame
    \/ \E success \in BOOLEAN :
           ExecuteToolCall(success) /\ UNCHANGED actFrame
    \/ BroadcastStep /\ UNCHANGED actFrame

SpecAct == InitAct /\ [][NextAct]_vars

\* C39: in a step event that carries a tool_name, tool_success is the
\* outcome of a tool call of that name, also when the response requested
\* several tool calls.
C39_ToolSuccessOfNamedCall ==
    act.pc = "broadcast" =>
        \E i \in 1..Len(act.tool_calls) :
            /\ act.tool_calls[i] = act.event.tool_name
            /\ act.outcomes[i] = act.event.tool_success

====
